---- MODULE Spec2Model ----
(***************************************************************************)
(* tajk19/vk-bot: the TTL single-flight cache (src/cache.py), the booking  *)
(* store adapter (src/google_sheets.py) and the handlers built on them.    *)
(*                                                                         *)
(* Execution model.  The program is one asyncio event loop.  A coroutine   *)
(* runs, without interruption, from one suspension point to the next; the  *)
(* loop takes the runnable coroutines from a FIFO queue (ready).  The      *)
(* cache lock is an asyncio.Lock that no holder keeps across an await, so  *)
(* it is never contended and acquiring it never suspends: each "async with *)
(* self._lock" block is part of the step that contains it.  A sync loader  *)
(* runs in an executor thread (run_in_executor): it reads the backing data *)
(* at some moment of its own (LoaderRun) and posts its completion to the   *)
(* tail of the ready queue.  When a task completes, the coroutines that    *)
(* await it are appended to the ready queue in the order they started to   *)
(* wait.  The clock advances while the loop is idle (Tick).                *)
(***************************************************************************)
EXTENDS Integers, Sequences, FiniteSets, TLC

\* ---------------------------------------------------------------- bounds
NCoros == 3         \* coroutines that call the cache concurrently
MaxCalls == 3       \* calls issued in one behaviour
TTL == 2            \* default_ttl, in clock ticks (300 s in the program, scaled down)
MaxTime == TTL + 1  \* last clock value: an entry made at 0 is expired then

NUsers == 2         \* requesters who book
NSlots == 4         \* time slots of the day that can be booked

Coros == 1..NCoros
Admin == 0
Users == 1..NUsers
\* ADMIN_IDS: Admin and one more
Admins == {Admin, NUsers + 1}
Senders == Admins \cup Users
Slots == 1..NSlots
TaskBase == 100
MaxTasks == 2 * MaxCalls   \* a call starts at most two loads
TaskIds == (TaskBase + 1)..(TaskBase + MaxTasks)
NoTask == 0
Keys == {"k"}
NoData == <<>>

VARIABLES
    cache,      \* Cache._cache: key -> entry ([has |-> FALSE] when absent)
    pending,    \* Cache._pending: key -> task registered as the in-flight load
    task,       \* the load tasks created by asyncio.create_task
    co,         \* the coroutines calling the cache
    ready,      \* the event loop's FIFO queue of runnable coroutines and tasks
    now,        \* time.time()
    nextTask,   \* number of load tasks created so far
    calls,      \* number of calls issued so far
    obs,        \* per key: what an observer of the calls has counted
    last,       \* the observer's record of the latest return or load completion
    sheet,      \* the List worksheet: the booking rows, in row order
    ctx,        \* Role.context: per sender, the dialog step and what was chosen
    hd,         \* per coroutine: the handler it runs, if it runs one
    ft,         \* a call of free_times_for_date: its inputs and its result
    nl,         \* notification_loop: whether it runs, its ticks, what it sent
    rt,         \* a call of the function with_retries returns
    mt,         \* check_sheet_changes: the times and the cached entity lists
    bl,         \* the blacklist: its sheet, its cached copy, who asked while on it
    lock        \* Cache._lock: who holds it

vars == <<cache, pending, task, co, ready, now, nextTask, calls, obs, last, sheet, ctx, hd, ft, nl, rt, mt, bl, lock>>

\* ---------------------------------------------------------------- values
NoEntry == [has |-> FALSE, data |-> NoData, created_at |-> 0]
Entry(d, t) == [has |-> TRUE, data |-> d, created_at |-> t]
Ok(v) == [ok |-> TRUE, val |-> v]
Exc == [ok |-> FALSE, val |-> NoData]
NoRes == [ok |-> TRUE, val |-> NoData]
\* cache.py 61: the lock as asyncio.Lock() makes it
Unlocked == 0

is_expired_always(e, t) == TRUE
is_expired_never(e, t) == FALSE

\* CacheEntry.is_expired with ttl = default_ttl (never None here)
is_expired(e, t) == t - e.created_at > TTL

\* "entry and not entry.is_expired()"
Live(e, t) == e.has /\ ~is_expired(e, t)

\* "async with self._lock" (cache.py 94, 122, 137, 177, 189, 205, 214, 230): the
\* block is entered by x when nobody holds the lock, and no block contains an
\* await, so x leaves it, and releases the lock, within the step that entered
Released_kept(x) == x
Released(x) == Unlocked

InFlight_never(k) == FALSE

\* "key in self._pending"
InFlight(k) == pending[k] # NoTask

\* a load task: ok = the loader returned; val = the task's result; exc = the
\* task raised; fb = it fell back to the entry prev it found in the cache
IdleTask == [st |-> "free", key |-> "k", ok |-> TRUE, val |-> NoData,
             exc |-> FALSE, fb |-> FALSE, prev |-> NoEntry, waiters |-> <<>>]
\* a coroutine: made = the load task it created; waited = the one it awaited;
\* startEntry, startNow = the entry and the clock at the call's first line;
\* dirty = since then the key was invalidated, or written by a load that is
\* neither the one the call made nor the one it awaited; gone = the data of
\* the entries invalidations had deleted before the call's first line
IdleCo == [pc |-> "idle", op |-> "get", key |-> "k", loader |-> TRUE,
           made |-> NoTask, waited |-> NoTask, dirty |-> FALSE,
           startEntry |-> NoEntry, startNow |-> 0, gone |-> {}]
\* last: a return of get ("ret": its result, the tasks the call made or waited
\* for, the entry and the clock at its first line, whether the returned value
\* sits in an expired entry, whether another writer touched the key during the
\* call) or the end of a load ("fin": whether the loader
\* succeeded, fell back or raised, and the entry before and after)
NoLast == [ev |-> "none", key |-> "k", res |-> NoRes, stale |-> FALSE, dirty |-> FALSE,
           sheet |-> <<>>, h |-> "none", user |-> 0, slot |-> 0, outcome |-> "none",
           count |-> 0, pending |-> FALSE, moved |-> FALSE, was |-> "", listed |-> FALSE,
           loader |-> TRUE,
           made |-> NoTask, waited |-> NoTask, startEntry |-> NoEntry, startNow |-> 0,
           lok |-> TRUE, fb |-> FALSE, exc |-> FALSE, val |-> NoData, prev |-> NoEntry,
           after |-> NoEntry, gone |-> {}, keys |-> {}]
\* obs[k]: loads = loader invocations so far; and, since the key last had no
\* get in progress (a batch of overlapping calls): n = calls with a loader,
\* done = those that returned, rets = what they returned, bloads = loader
\* invocations, bval = the last value a loader produced, fail = a loader
\* raised, inval = the key was invalidated; and, over the whole run, removed =
\* the data of the entries that invalidations have deleted
NoObs == [loads |-> 0, n |-> 0, done |-> 0, fail |-> FALSE, inval |-> FALSE,
          bloads |-> 0, bval |-> NoData, rets |-> {}, removed |-> {}]

\* hd[c]: the handler coroutine c runs (h), for which sender and slot, where it
\* continues when the get it has called returns (then), and what that get
\* returned (got)
NoFrame == [h |-> "none", user |-> 0, slot |-> 0, then |-> "none", got |-> NoRes]
NoneDate == [kind |-> "None", day |-> 0]
NoneUser == 0 - 1
\* a row of empty cells; and no record
BlankRow == [date |-> NoneDate, time |-> 0, status |-> "", user |-> NoneUser]
NoRecord == [date |-> NoneDate, time |-> 0, status |-> "", user |-> NoneUser, row |-> 0]
\* ctx[u]: the dialog step, the time chosen, the record to reject
NoCtx == [step |-> "none", time |-> 0, record |-> NoRecord]
\* nl: notification_loop. awaited = its calls of the store are evaluated (as
\* their signatures require) and not left as coroutine objects (as written);
\* alive = the loop has not ended; ticks = iterations begun; at = the clock of
\* the latest iteration; sent = the rows a "starting soon" notification was
\* sent for, one element per notification; latest = those of the latest
\* iteration
NoLoop == [awaited |-> TRUE, alive |-> TRUE, ticks |-> 0, at |-> 0, sent |-> <<>>,
           latest |-> <<>>]
\* ft: a call of free_times_for_date: the schedule's hours, the clock, which
\* way the bookings came (path) and the list returned (result)
\* rt: wrapped() of with_retries. call = calls begun; st = where the latest is;
\* attempt = the loop variable; invoked = loader() calls of this call, of which
\* failed raised; delay = the next sleep, in units of base_delay (0.5 s);
\* waits = the sleeps made, in order; res = what it returned or raised
NoRetry == [call |-> 0, st |-> "idle", attempt |-> 0, invoked |-> 0, failed |-> 0,
            delay |-> 1, waits |-> <<>>, res |-> NoRes]

\* mt: last = _last_modified_time (0 = None); drive = the modifiedTime the
\* Drive API reports; kept = the blacklist and schedule lists the cache holds;
\* polls = calls of check_sheet_changes; cleared = a call has invalidated;
\* before = the loads that had read the sheet, and not yet stored what they
\* read, when the sheet was last modified
NoWatch == [last |-> 0, drive |-> 1, kept |-> {}, polls |-> 0, cleared |-> FALSE,
            before |-> {}]

\* bl: initialized = _initialized; listed = the requesters the blacklist sheet
\* names; cached = the list the cache holds; asked = the requesters who asked
\* to book while the sheet named them
NoBlacklist == [initialized |-> FALSE, listed |-> {}, cached |-> [has |-> FALSE, data |-> {}],
                asked |-> {}]

NoFreeTimes == [path |-> "none", start_hour |-> 0, end_hour |-> 0, today |-> 0,
                minutes |-> 0, closed |-> 0, date |-> 0, missing |-> {},
                raised |-> FALSE, result |-> <<>>]

\* a get call on k is in progress
Busy(c, k) == co[c].op = "get" /\ co[c].key = k /\ co[c].pc # "idle"
Quiet(k) == \A c \in Coros : ~Busy(c, k)

Init ==
    /\ cache = [k \in Keys |-> NoEntry]
    /\ pending = [k \in Keys |-> NoTask]
    /\ task = [t \in TaskIds |-> IdleTask]
    /\ co = [c \in Coros |-> IdleCo]
    /\ ready = <<>>
    /\ now = 0
    /\ nextTask = 0
    /\ calls = 0
    /\ obs = [k \in Keys |-> NoObs]
    /\ last = NoLast
    /\ sheet = <<>>
    /\ ctx = [u \in Senders |-> NoCtx]
    /\ hd = [c \in Coros |-> NoFrame]
    /\ ft = NoFreeTimes
    /\ nl = NoLoop
    /\ rt = NoRetry
    /\ mt = NoWatch
    /\ bl = NoBlacklist
    /\ lock = Unlocked

\* the calls in progress on k, except those served by load t, see a write to k
Touch(k, t) ==
    [c \in Coros |->
        IF co[c].key = k /\ co[c].pc \in {"after_wait", "own_wait"}
           /\ (t = NoTask \/ (co[c].made # t /\ co[c].waited # t))
        THEN [co[c] EXCEPT !.dirty = TRUE]
        ELSE co[c]]

\* ------------------------------------------------------- the event loop
Running(x) == ready # <<>> /\ Head(ready) = x

\* coroutine objects are interchangeable: a new call takes the first free one
FirstFree(c) == co[c].pc = "idle" /\ \A d \in Coros : d < c => co[d].pc # "idle"

\* a new call: its coroutine is put at the tail of the ready queue
Arrive(c, op, k, ld) ==
    /\ FirstFree(c)
    /\ calls < MaxCalls
    /\ calls' = calls + 1
    /\ co' = [co EXCEPT ![c] = [IdleCo EXCEPT !.pc = IF op = "get" THEN "get" ELSE "inval",
                                              !.op = op, !.key = k, !.loader = ld]]
    /\ ready' = Append(ready, c)
    /\ obs' = IF op = "get"
              THEN [obs EXCEPT ![k] =
                      IF Quiet(k)
                      THEN [NoObs EXCEPT !.loads = obs[k].loads, !.removed = obs[k].removed,
                                         !.n = IF ld THEN 1 ELSE 0]
                      ELSE [@ EXCEPT !.n = IF ld THEN @ + 1 ELSE @]]
              ELSE obs
    /\ UNCHANGED <<cache, pending, task, now, nextTask, last, sheet, ctx, hd, ft, nl, rt, mt, bl, lock>>

\* a get called by a handler returns into the handler, which runs on; a get
\* called on its own ends its coroutine
Leave(c) == IF hd[c].h = "none" THEN Tail(ready) ELSE ready

\* a get returns r (an Ok value or the exception) to its caller: what the
\* observer records of the call, seen from the first line of get
Return(c, r, e0, t0, g0) ==
    LET k == co[c].key
        e == cache[k]
    IN /\ co' = [co EXCEPT ![c] = IF hd[c].h = "none" THEN IdleCo
                                   ELSE [IdleCo EXCEPT !.pc = hd[c].then]]
       /\ hd' = IF hd[c].h = "none" THEN hd ELSE [hd EXCEPT ![c].got = r]
       /\ obs' = IF co[c].loader
                 THEN [obs EXCEPT ![k] = [@ EXCEPT !.done = @ + 1, !.rets = @ \cup {r}]]
                 ELSE obs
       /\ last' = [NoLast EXCEPT !.ev = "ret", !.key = k, !.res = r,
                                 !.loader = co[c].loader, !.dirty = co[c].dirty,
                                 !.made = co[c].made, !.waited = co[c].waited,
                                 !.startEntry = e0, !.startNow = t0, !.sheet = sheet,
                                 !.gone = g0,
                                 !.stale = r.ok /\ e.has /\ e.data = r.val
                                           /\ now - e.created_at > TTL]

\* cache.py 85-87: the first check finds a live entry
GetHit(c) ==
    /\ Running(c) /\ co[c].pc = "get"
    /\ Live(cache[co[c].key], now)
    /\ Return(c, Ok(cache[co[c].key].data), cache[co[c].key], now,
              obs[co[c].key].removed)
    /\ ready' = Leave(c)
    /\ UNCHANGED <<cache, pending, task, now, nextTask, calls, sheet, ctx, ft, nl, rt, mt, bl, lock>>

\* cache.py 90-91: no loader supplied
GetPeek(c) ==
    /\ Running(c) /\ co[c].pc = "get"
    /\ ~Live(cache[co[c].key], now)
    /\ ~co[c].loader
    /\ Return(c, Ok(cache[co[c].key].data), cache[co[c].key], now,
              obs[co[c].key].removed)
    /\ ready' = Leave(c)
    /\ UNCHANGED <<cache, pending, task, now, nextTask, calls, sheet, ctx, ft, nl, rt, mt, bl, lock>>

\* cache.py 94-110: a load is registered for the key: await it
GetJoin(c) ==
    /\ Running(c) /\ co[c].pc = "get"
    /\ ~Live(cache[co[c].key], now)
    /\ co[c].loader
    /\ InFlight(co[c].key)
    /\ LET t == pending[co[c].key] IN
         /\ co' = [co EXCEPT ![c] = [@ EXCEPT !.pc = "after_wait", !.waited = t,
                                              !.startEntry = cache[co[c].key],
                                              !.startNow = now,
                                              !.gone = obs[co[c].key].removed]]
         /\ IF task[t].st = "done"
            THEN \* awaiting a finished task does not suspend
                 /\ UNCHANGED <<task, ready>>
            ELSE /\ task' = [task EXCEPT ![t].waiters = Append(@, c)]
                 /\ ready' = Tail(ready)
    /\ UNCHANGED <<cache, pending, now, nextTask, calls, obs, last, sheet, ctx, hd, ft, nl, rt, mt, bl>>
    /\ lock = Unlocked
    /\ lock' = Released(c)

\* cache.py 122-134: register a load task of one's own and await it
CanCreate(c) ==
    \/ co[c].pc = "get" /\ ~Live(cache[co[c].key], now) /\ co[c].loader
                        /\ ~InFlight(co[c].key)
    \/ co[c].pc = "after_wait" /\ ~cache[co[c].key].has

GetCreate(c) ==
    /\ Running(c)
    /\ CanCreate(c)
    /\ LET k == co[c].key
           t == TaskBase + nextTask + 1
       IN /\ nextTask < MaxTasks
          /\ nextTask' = nextTask + 1
          /\ task' = [task EXCEPT ![t] = [IdleTask EXCEPT !.st = "scheduled", !.key = k,
                                                          !.waiters = <<c>>]]
          /\ pending' = [pending EXCEPT ![k] = t]
          /\ co' = [co EXCEPT ![c] =
                      [@ EXCEPT !.pc = "own_wait", !.made = t,
                                !.startEntry = IF co[c].pc = "get" THEN cache[k] ELSE @,
                                !.startNow = IF co[c].pc = "get" THEN now ELSE @,
                                !.gone = IF co[c].pc = "get" THEN obs[k].removed ELSE @]]
          /\ ready' = Append(Tail(ready), t)
    /\ UNCHANGED <<cache, now, calls, obs, last, sheet, ctx, hd, ft, nl, rt, mt, bl>>
    /\ lock = Unlocked
    /\ lock' = Released(c)

\* cache.py 113-119: resumed after the awaited load: return what the cache holds
AfterWait(c) ==
    /\ Running(c) /\ co[c].pc = "after_wait"
    /\ cache[co[c].key].has
    /\ Return(c, Ok(cache[co[c].key].data), co[c].startEntry, co[c].startNow,
              co[c].gone)
    /\ ready' = Leave(c)
    /\ UNCHANGED <<cache, pending, task, now, nextTask, calls, sheet, ctx, ft, nl, rt, mt, bl, lock>>

\* cache.py 133-138: resumed after one's own load: clear the registration and
\* return the task's result or raise its exception
TaskOutcome_swallow(t) == Ok(task[t].val)

TaskOutcome(t) == IF task[t].exc THEN Exc ELSE Ok(task[t].val)

\* cache.py 137-138: "self._pending.pop(key, None)"
Popped_kept(t) == t
Popped(t) == NoTask

OwnDone(c) ==
    /\ Running(c) /\ co[c].pc = "own_wait"
    /\ Return(c, TaskOutcome(co[c].made), co[c].startEntry, co[c].startNow,
              co[c].gone)
    /\ pending' = [pending EXCEPT ![co[c].key] = Popped(@)]
    /\ ready' = Leave(c)
    /\ UNCHANGED <<cache, task, now, nextTask, calls, sheet, ctx, ft, nl, rt, mt, bl>>
    /\ lock = Unlocked
    /\ lock' = Released(c)

\* cache.py 157-164: the task starts and hands the loader to the executor
TaskStart(t) ==
    /\ Running(t) /\ task[t].st = "scheduled"
    /\ task' = [task EXCEPT ![t].st = "executing"]
    /\ obs' = [obs EXCEPT ![task[t].key] = [@ EXCEPT !.loads = @ + 1, !.bloads = @ + 1]]
    /\ ready' = Tail(ready)
    /\ UNCHANGED <<cache, pending, co, now, nextTask, calls, last, sheet, ctx, hd, ft, nl, rt, mt, bl, lock>>

\* the loader, in its thread: a counting loader whose n-th invocation returns n
LoaderValue(t) == <<t - TaskBase>>

\* v is what the loader reads, at the moment it reads it
LoaderRun(t, ok, v) ==
    /\ task[t].st = "executing"
    /\ task' = [task EXCEPT ![t] = [@ EXCEPT !.st = "posted", !.ok = ok,
                                             !.val = IF ok THEN v ELSE NoData]]
    /\ ready' = Append(ready, t)
    /\ obs' = [obs EXCEPT ![task[t].key] =
                  [@ EXCEPT !.fail = @ \/ ~ok,
                            !.bval = IF ok THEN v ELSE @]]
    /\ UNCHANGED <<cache, pending, co, now, nextTask, calls, last, sheet, ctx, hd, ft, nl, rt, mt, bl, lock>>

Fallback_never(e) == FALSE

\* cache.py 167-171: "entry = self._cache.get(key); if entry: return entry.data"
Fallback(e) == e.has

\* cache.py 165-180: the loader has returned or raised
TaskFinish(t) ==
    /\ Running(t) /\ task[t].st = "posted"
    /\ LET k == task[t].key
           e == cache[k]
           fb == ~task[t].ok /\ Fallback(e)
           v == IF task[t].ok THEN task[t].val ELSE IF fb THEN e.data ELSE NoData
       IN /\ cache' = IF task[t].ok THEN [cache EXCEPT ![k] = Entry(v, now)] ELSE cache
          /\ task' = [task EXCEPT ![t] =
                        [@ EXCEPT !.st = "done", !.waiters = <<>>, !.fb = fb,
                                  !.prev = IF fb THEN e ELSE NoEntry,
                                  !.exc = ~task[t].ok /\ ~fb, !.val = v]]
          /\ last' = [NoLast EXCEPT !.ev = "fin", !.key = k, !.lok = task[t].ok, !.fb = fb,
                                    !.exc = ~task[t].ok /\ ~fb, !.val = v,
                                    !.prev = e, !.after = cache'[k]]
          /\ co' = IF task[t].ok THEN Touch(k, t) ELSE co
    /\ ready' = Tail(ready) \o task[t].waiters
    /\ UNCHANGED <<pending, now, nextTask, calls, obs, sheet, ctx, hd, ft, nl, rt, mt, bl>>
    /\ (task[t].ok => lock = Unlocked)
    /\ lock' = IF task[t].ok THEN Released(t) ELSE lock

Deleted_kept(e) == e

\* cache.py 194-195: "del self._cache[key]"
Deleted(e) == NoEntry

\* cache.py 182-196: invalidate(key)
Invalidate(c) ==
    /\ Running(c) /\ co[c].pc = "inval"
    /\ cache' = [cache EXCEPT ![co[c].key] = Deleted(@)]
    /\ co' = [Touch(co[c].key, NoTask) EXCEPT ![c] = IdleCo]
    /\ obs' = [obs EXCEPT ![co[c].key] =
                  [@ EXCEPT !.inval = TRUE,
                            !.removed = IF cache[co[c].key].has
                                        THEN @ \cup {cache[co[c].key].data} ELSE @]]
    /\ ready' = Tail(ready)
    /\ UNCHANGED <<pending, task, now, nextTask, calls, last, sheet, ctx, hd, ft, nl, rt, mt, bl>>
    /\ lock = Unlocked
    /\ lock' = Released(c)

Tick ==
    /\ ready = <<>>
    /\ now < MaxTime
    /\ now' = now + 1
    /\ UNCHANGED <<cache, pending, task, co, ready, nextTask, calls, obs, last, sheet, ctx, hd, ft, nl, rt, mt, bl, lock>>

Next ==
    \/ \E c \in Coros, k \in Keys, ld \in BOOLEAN : Arrive(c, "get", k, ld)
    \/ \E c \in Coros, k \in Keys : Arrive(c, "invalidate", k, TRUE)
    \/ \E c \in Coros : GetHit(c)
    \/ \E c \in Coros : GetPeek(c)
    \/ \E c \in Coros : GetJoin(c)
    \/ \E c \in Coros : GetCreate(c)
    \/ \E c \in Coros : AfterWait(c)
    \/ \E c \in Coros : OwnDone(c)
    \/ \E c \in Coros : Invalidate(c)
    \/ \E t \in TaskIds : TaskStart(t)
    \/ \E t \in TaskIds, ok \in BOOLEAN : LoaderRun(t, ok, LoaderValue(t))
    \/ \E t \in TaskIds : TaskFinish(t)
    \/ Tick

Spec == Init /\ [][Next]_vars

\* ------------------------------------------------- the booking store
\* The handlers of src/handlers call the store's coroutine functions
\* (get_bookings, is_time_free, get_user_active_bookings, add_booking)
\* without "await".  As written, such a call yields a coroutine object that
\* never runs: "not is_time_free(...)" is False, iterating the object raises
\* TypeError, and add_booking(...) appends nothing; start_booking
\* (user.py 178-181) raises so on every message, and no dialog gets as far as
\* choosing a time.  The definitions below follow the handlers line by line
\* with every such call evaluated, that is awaited, which is what the
\* functions' signatures require and what the handlers' logic presupposes.

\* config.py 38
MAX_SLOTS_PER_DAY == 3

STATUS_PENDING == "pending"
STATUS_CONFIRMED == "confirmed"
STATUS_REJECTED == "rejected"
STATUS_BLOCKED == "blocked"
ACTIVE_STATUSES == {STATUS_PENDING, STATUS_CONFIRMED, STATUS_BLOCKED}

\* a datetime.date object, and the texts the conversions make of one; values
\* of different kinds are never equal, as in Python a date never equals a str
DateObj(d) == [kind |-> "date", day |-> d]
\* datetime.strftime(date, DATE_FORMAT), DATE_FORMAT = "%d.%m.%y"
strftime(x) == [kind |-> "dd.mm.yy", day |-> x.day]
\* str(x): the ISO text of a date object, a text unchanged
StrOf(x) == IF x.kind = "date" THEN [kind |-> "yyyy-mm-dd", day |-> x.day] ELSE x
\* the date every dialog of the model has selected (context["date"])
selected_date == DateObj(1)

\* google_sheets.py 411-425: the row add_booking appends
add_booking(sh, date, time_slot, user_id, status) ==
    Append(sh, [date |-> StrOf(date), time |-> time_slot, status |-> status,
                user |-> user_id])

\* google_sheets.py 267-288: the rows as records, each with its row number
\* (row 1 is the header); rows of empty cells are skipped
fetch_records(sh) ==
    LET numbered == [i \in 1..Len(sh) |-> [date |-> sh[i].date, time |-> sh[i].time,
                                           status |-> sh[i].status, user |-> sh[i].user,
                                           row |-> i + 1]]
    IN SelectSeq(numbered, LAMBDA r : r.status # "")

\* cache.py 342-347: list.sort by (date, time); it is stable
RECURSIVE InsertSorted(_, _)
InsertSorted(r, s) ==
    IF s = <<>> THEN <<r>>
    ELSE IF r.date.day < Head(s).date.day
            \/ (r.date.day = Head(s).date.day /\ r.time < Head(s).time)
         THEN <<r>> \o s
         ELSE <<Head(s)>> \o InsertSorted(r, Tail(s))

RECURSIVE SortBookings(_)
SortBookings(s) ==
    IF s = <<>> THEN <<>>
    ELSE InsertSorted(s[Len(s)], SortBookings(SubSeq(s, 1, Len(s) - 1)))

\* cache.py 330-349: the filters of get_cached_bookings and its sort
get_cached_bookings(all, date, user_id, statuses) ==
    LET Keep(r) == /\ (date.kind # "None" => r.date = date)
                   /\ (user_id # NoneUser => r.user = user_id)
                   /\ (statuses # {} => r.status \in statuses)
    IN SortBookings(SelectSeq(all, Keep))

\* google_sheets.py 354-372: get_bookings on the cached list all
get_bookings(all, date, user_id, statuses) ==
    get_cached_bookings(all, IF date.kind # "None" THEN StrOf(strftime(date)) ELSE NoneDate,
                        user_id, statuses)

\* google_sheets.py 463-468
is_time_free(all, date, time_slot) ==
    LET records == get_bookings(all, date, NoneUser, {})
    IN ~\E i \in 1..Len(records) :
          records[i].time = time_slot /\ records[i].status \in ACTIVE_STATUSES

\* google_sheets.py 471-475
get_user_active_bookings(all, user_id) ==
    get_bookings(all, NoneDate, user_id, ACTIVE_STATUSES)

\* user.py 337-341: "record.get("Дата") == selected_date"
bookings_same_day(all, user_id, date) ==
    SelectSeq(get_user_active_bookings(all, user_id), LAMBDA r : r.date = date)

\* the requester's active bookings on the date, counted in the sheet itself
ActiveOnDay(sh, user_id, date) ==
    Cardinality({i \in 1..Len(sh) : /\ sh[i].user = user_id
                                    /\ sh[i].status \in ACTIVE_STATUSES
                                    /\ sh[i].date = strftime(date)})

\* ------------------------------------------------------ the handlers
\* reset_context (role.py 54-55)
reset_context(u) == [ctx EXCEPT ![u] = NoCtx]

\* invalidate_bookings_cache (cache.py 352-356), run inside the caller's step
InvalidateBookings ==
    /\ cache' = [cache EXCEPT !["k"] = Deleted(@)]
    /\ obs' = [obs EXCEPT !["k"] =
                  [@ EXCEPT !.inval = TRUE,
                            !.removed = IF cache["k"].has THEN @ \cup {cache["k"].data}
                                        ELSE @]]

\* the handler of coroutine c returns
Finish(c, outcome, sh) ==
    /\ hd' = [hd EXCEPT ![c] = NoFrame]
    /\ ready' = Tail(ready)
    /\ last' = [NoLast EXCEPT !.ev = "handled", !.h = hd[c].h, !.user = hd[c].user,
                              !.slot = hd[c].slot, !.outcome = outcome, !.sheet = sh,
                              !.count = ActiveOnDay(sheet, hd[c].user, selected_date)]

\* a message arrives: the time chosen (handle_time, handle_block_time) or
\* "options_done" (handle_options); its task joins the ready queue
Request(c, h, u, s) ==
    /\ FirstFree(c)
    /\ calls < MaxCalls
    /\ \/ h = "handle_time" /\ u \in Users /\ ctx[u].step = "choose_time"
       \/ h = "handle_options" /\ u \in Users /\ ctx[u].step = "choose_options"
                               /\ s = ctx[u].time
       \/ h = "handle_block_time" /\ u = Admin /\ ctx[u].step = "block_time"
    /\ calls' = calls + 1
    /\ co' = [co EXCEPT ![c] = [IdleCo EXCEPT !.pc = "dispatch"]]
    /\ hd' = [hd EXCEPT ![c] = [NoFrame EXCEPT !.h = h, !.user = u, !.slot = s]]
    /\ ready' = Append(ready, c)
    /\ obs' = [obs EXCEPT !["k"] = IF Quiet("k") THEN [NoObs EXCEPT !.loads = obs["k"].loads,
                                                                 !.removed = obs["k"].removed]
                                  ELSE @]
    /\ UNCHANGED <<cache, pending, task, now, nextTask, last, sheet, ctx, ft, nl, rt, mt, bl, lock>>

\* the labeler's rule (user.py 265-268, 359-362; admin.py 429-432) and the
\* handler's lines up to its call of is_time_free (user.py 329, 436;
\* admin.py 487), which calls get_bookings, which calls Cache.get
Routed(c) ==
    LET u == hd[c].user
    IN \/ hd[c].h = "handle_time" /\ ctx[u].step = "choose_time"
       \/ hd[c].h = "handle_options" /\ ctx[u].step = "choose_options"
       \/ hd[c].h = "handle_block_time" /\ ctx[u].step = "block_time"

Dispatch(c) ==
    /\ Running(c) /\ co[c].pc = "dispatch"
    /\ IF Routed(c)
       THEN /\ co' = [co EXCEPT ![c].pc = "get"]
            /\ hd' = [hd EXCEPT ![c].then = CASE hd[c].h = "handle_time" -> "ht_free"
                                               [] hd[c].h = "handle_options" -> "ho_free"
                                               [] OTHER -> "hb_free",
                                ![c].slot = IF hd[c].h = "handle_options"
                                            THEN ctx[hd[c].user].time ELSE @]
            /\ UNCHANGED <<ready, last>>
       ELSE /\ co' = [co EXCEPT ![c] = IdleCo]
            /\ Finish(c, "unrouted", sheet)
    /\ UNCHANGED <<cache, pending, task, now, nextTask, calls, obs, sheet, ctx, ft, nl, rt, mt, bl, lock>>

\* user.py 329-339: handle_time after is_time_free
HtFree(c) ==
    /\ Running(c) /\ co[c].pc = "ht_free"
    /\ IF ~hd[c].got.ok
       THEN co' = [co EXCEPT ![c] = IdleCo] /\ Finish(c, "error", sheet)
       ELSE IF ~is_time_free(hd[c].got.val, selected_date, hd[c].slot)
       THEN co' = [co EXCEPT ![c] = IdleCo] /\ Finish(c, "taken", sheet)
       ELSE /\ co' = [co EXCEPT ![c].pc = "get"]
            /\ hd' = [hd EXCEPT ![c].then = "ht_quota"]
            /\ UNCHANGED <<ready, last>>
    /\ UNCHANGED <<cache, pending, task, now, nextTask, calls, obs, sheet, ctx, ft, nl, rt, mt, bl, lock>>

\* user.py 337-357: handle_time after get_user_active_bookings
HtQuota(c) ==
    /\ Running(c) /\ co[c].pc = "ht_quota"
    /\ co' = [co EXCEPT ![c] = IdleCo]
    /\ LET u == hd[c].user
       IN IF ~hd[c].got.ok
          THEN Finish(c, "error", sheet) /\ ctx' = ctx
          ELSE IF Len(bookings_same_day(hd[c].got.val, u, selected_date)) >= MAX_SLOTS_PER_DAY
          THEN Finish(c, "quota", sheet) /\ ctx' = reset_context(u)
          ELSE /\ Finish(c, "accepted", sheet)
               /\ ctx' = [ctx EXCEPT ![u] = [NoCtx EXCEPT !.step = "choose_options",
                                                           !.time = hd[c].slot]]
    /\ UNCHANGED <<cache, pending, task, now, nextTask, calls, obs, sheet, ft, nl, rt, mt, bl, lock>>

\* user.py 436-444: handle_options after is_time_free; then it awaits the
\* network call users.get
HoFree(c) ==
    /\ Running(c) /\ co[c].pc = "ho_free"
    /\ LET u == hd[c].user
       IN IF ~hd[c].got.ok
          THEN co' = [co EXCEPT ![c] = IdleCo] /\ Finish(c, "error", sheet) /\ ctx' = ctx
          ELSE IF ~is_time_free(hd[c].got.val, selected_date, hd[c].slot)
          THEN /\ co' = [co EXCEPT ![c] = IdleCo]
               /\ Finish(c, "taken", sheet)
               /\ ctx' = reset_context(u)
          ELSE /\ co' = [co EXCEPT ![c].pc = "io"]
               /\ hd' = [hd EXCEPT ![c].then = "ho_add"]
               /\ ready' = Tail(ready)
               /\ UNCHANGED <<last, ctx>>
    /\ UNCHANGED <<cache, pending, task, now, nextTask, calls, obs, sheet, ft, nl, rt, mt, bl, lock>>

\* the network call of a suspended handler completes
IoReply(c) ==
    /\ co[c].pc = "io"
    /\ co' = [co EXCEPT ![c].pc = hd[c].then]
    /\ ready' = Append(ready, c)
    /\ UNCHANGED <<cache, pending, task, now, nextTask, calls, obs, last, sheet, ctx, hd, ft, nl, rt, mt, bl, lock>>

\* user.py 451-459 and google_sheets.py 411-427: add_booking appends the row
\* and invalidates the cache; then the handler awaits messages.send
HoAdd(c) ==
    /\ Running(c) /\ co[c].pc = "ho_add"
    /\ LET u == hd[c].user
       IN /\ sheet' = add_booking(sheet, strftime(selected_date), hd[c].slot, u,
                                  STATUS_PENDING)
          /\ last' = [NoLast EXCEPT !.ev = "added", !.h = hd[c].h, !.user = u,
                                    !.slot = hd[c].slot, !.sheet = sheet',
                                    !.count = ActiveOnDay(sheet, u, selected_date)]
    /\ InvalidateBookings
    /\ co' = [Touch("k", NoTask) EXCEPT ![c].pc = "io"]
    /\ hd' = [hd EXCEPT ![c].then = "ho_done"]
    /\ ready' = Tail(ready)
    /\ UNCHANGED <<pending, task, now, nextTask, calls, ctx, ft, nl, rt, mt, bl, lock>>

\* user.py 481-487
HoDone(c) ==
    /\ Running(c) /\ co[c].pc = "ho_done"
    /\ co' = [co EXCEPT ![c] = IdleCo]
    /\ ctx' = reset_context(hd[c].user)
    /\ Finish(c, "booked", sheet)
    /\ UNCHANGED <<cache, pending, task, now, nextTask, calls, obs, sheet, ft, nl, rt, mt, bl, lock>>

\* admin.py 487-510: handle_block_time after is_time_free
HbFree(c) ==
    /\ Running(c) /\ co[c].pc = "hb_free"
    /\ IF ~hd[c].got.ok
       THEN /\ co' = [co EXCEPT ![c] = IdleCo]
            /\ Finish(c, "error", sheet)
            /\ UNCHANGED <<cache, obs, sheet, ctx>>
       ELSE IF ~is_time_free(hd[c].got.val, selected_date, hd[c].slot)
       THEN /\ co' = [co EXCEPT ![c] = IdleCo]
            /\ Finish(c, "taken", sheet)
            /\ UNCHANGED <<cache, obs, sheet, ctx>>
       ELSE /\ sheet' = add_booking(sheet, strftime(selected_date), hd[c].slot, NoneUser,
                                    STATUS_BLOCKED)
            /\ InvalidateBookings
            /\ co' = [Touch("k", NoTask) EXCEPT ![c] = IdleCo]
            /\ ctx' = reset_context(hd[c].user)
            /\ Finish(c, "blocked", sheet')
    /\ UNCHANGED <<pending, task, now, nextTask, calls, ft, nl, rt, mt, bl, lock>>

\* the sheet a deployment starts the model from: empty, or user 1 holding
\* MAX_SLOTS_PER_DAY bookings on the date
QuotaSheet ==
    [i \in 1..MAX_SLOTS_PER_DAY |->
        [date |-> strftime(selected_date), time |-> i,
         status |-> IF i = 1 THEN STATUS_CONFIRMED ELSE STATUS_PENDING, user |-> 1]]
InitialSheets == {<<>>, QuotaSheet}

\* every user has chosen the date and is asked the time (user.py 258-259); the
\* admin has chosen the date to block (admin.py 422)
BInit ==
    /\ cache = [k \in Keys |-> NoEntry]
    /\ pending = [k \in Keys |-> NoTask]
    /\ task = [t \in TaskIds |-> IdleTask]
    /\ co = [c \in Coros |-> IdleCo]
    /\ ready = <<>>
    /\ now = 0
    /\ nextTask = 0
    /\ calls = 0
    /\ obs = [k \in Keys |-> NoObs]
    /\ last = NoLast
    /\ sheet \in InitialSheets
    /\ ctx = [u \in Senders |-> IF u = Admin THEN [NoCtx EXCEPT !.step = "block_time"]
                                ELSE IF u \in Users
                                THEN [NoCtx EXCEPT !.step = "choose_time"]
                                ELSE NoCtx]
    /\ hd = [c \in Coros |-> NoFrame]
    /\ ft = NoFreeTimes
    /\ nl = NoLoop
    /\ rt = NoRetry
    /\ mt = NoWatch
    /\ bl = NoBlacklist
    /\ lock = Unlocked

BNext ==
    \/ \E c \in Coros, u \in Users, s \in Slots : Request(c, "handle_time", u, s)
    \/ \E c \in Coros, u \in Users, s \in Slots : Request(c, "handle_options", u, s)
    \/ \E c \in Coros, s \in Slots : Request(c, "handle_block_time", Admin, s)
    \/ \E c \in Coros : Arrive(c, "get", "k", TRUE)
    \/ \E c \in Coros : Dispatch(c)
    \/ \E c \in Coros : GetHit(c)
    \/ \E c \in Coros : GetJoin(c)
    \/ \E c \in Coros : GetCreate(c)
    \/ \E c \in Coros : AfterWait(c)
    \/ \E c \in Coros : OwnDone(c)
    \/ \E t \in TaskIds : TaskStart(t)
    \/ \E t \in TaskIds : LoaderRun(t, TRUE, fetch_records(sheet))
    \/ \E t \in TaskIds : TaskFinish(t)
    \/ \E c \in Coros : HtFree(c)
    \/ \E c \in Coros : HtQuota(c)
    \/ \E c \in Coros : HoFree(c)
    \/ \E c \in Coros : IoReply(c)
    \/ \E c \in Coros : HoAdd(c)
    \/ \E c \in Coros : HoDone(c)
    \/ \E c \in Coros : HbFree(c)

BSpec == BInit /\ [][BNext]_vars

\* ------------------------------------------- the admin's transitions
\* the sheet's cells of a record (google_sheets.py 296-297)
values_from_record(r) == [date |-> r.date, time |-> r.time, status |-> r.status,
                          user |-> r.user]

RECURSIVE Blanks(_)
Blanks(n) == IF n <= 0 THEN <<>> ELSE <<BlankRow>> \o Blanks(n - 1)

\* google_sheets.py 438-439: the row numbered record["_row"] is overwritten
\* with the record's own cells and the updates, whatever the row holds now;
\* a row below the last one is written after empty rows
update_booking(sh, record, status) ==
    LET i == record.row - 1
        cells == values_from_record([record EXCEPT !.status = status])
    IN IF i <= Len(sh) THEN [sh EXCEPT ![i] = cells]
       ELSE sh \o Blanks(i - Len(sh) - 1) \o <<cells>>

\* google_sheets.py 455: delete_rows(record["_row"]); the rows below move up
delete_booking(sh, record) ==
    LET i == record.row - 1
    IN IF i <= Len(sh) THEN SubSeq(sh, 1, i - 1) \o SubSeq(sh, i + 1, Len(sh))
       ELSE sh

\* google_sheets.py 478-479
get_pending_bookings(all) == get_bookings(all, NoneDate, NoneUser, {STATUS_PENDING})

\* admin.py 169-172, 191-194: next(r for r in get_pending_bookings() if
\* str(r["_row"]) == row), None when there is none
FindPending(all, row) ==
    LET found == SelectSeq(get_pending_bookings(all), LAMBDA r : r.row = row)
    IN IF found = <<>> THEN NoRecord ELSE found[1]

\* the store row a record was read from still holds that booking, Pending
StillPending(sh, record) ==
    /\ record.row - 1 \in 1..Len(sh)
    /\ sh[record.row - 1] = values_from_record([record EXCEPT !.status = STATUS_PENDING])

\* the booking a record was read from is in the store, in another row than
\* the one the record names
Moved(sh, record) ==
    /\ ~(record.row - 1 \in 1..Len(sh) /\ sh[record.row - 1] = values_from_record(record))
    /\ \E j \in 1..Len(sh) : sh[j] = values_from_record(record)

\* the status the row a record names holds ("" for an empty row)
StatusInRow(sh, record) ==
    IF record.row - 1 \in 1..Len(sh) THEN sh[record.row - 1].status ELSE ""

\* a button of a listed request ("admin_confirm", "admin_reject" with its
\* row) or the text of a reason arrives from admin a
AdminRequest(c, a, h, row) ==
    /\ FirstFree(c)
    /\ calls < MaxCalls
    /\ \/ h \in {"admin_confirm", "admin_reject"} /\ ctx[a].step = "confirm_records"
       \/ h = "reject_record" /\ ctx[a].step = "reject_reason" /\ row = ctx[a].record.row
    /\ calls' = calls + 1
    /\ co' = [co EXCEPT ![c] = [IdleCo EXCEPT !.pc = "admin_dispatch"]]
    /\ hd' = [hd EXCEPT ![c] = [NoFrame EXCEPT !.h = h, !.user = a, !.slot = row]]
    /\ ready' = Append(ready, c)
    /\ obs' = [obs EXCEPT !["k"] = IF Quiet("k")
                                  THEN [NoObs EXCEPT !.loads = obs["k"].loads,
                                                     !.removed = obs["k"].removed]
                                  ELSE @]
    /\ UNCHANGED <<cache, pending, task, now, nextTask, last, sheet, ctx, ft, nl, rt, mt, bl, lock>>

\* admin.py 150-152, 213-215: the labeler's rule, then handle_confirm_records
\* up to get_pending_bookings (169, 191)
ConfirmDispatch(c) ==
    /\ Running(c) /\ co[c].pc = "admin_dispatch"
    /\ hd[c].h \in {"admin_confirm", "admin_reject"}
    /\ IF ctx[hd[c].user].step = "confirm_records"
       THEN /\ co' = [co EXCEPT ![c].pc = "get"]
            /\ hd' = [hd EXCEPT ![c].then = "found"]
            /\ UNCHANGED <<ready, last>>
       ELSE /\ co' = [co EXCEPT ![c] = IdleCo]
            /\ Finish(c, "unrouted", sheet)
    /\ UNCHANGED <<cache, pending, task, now, nextTask, calls, obs, sheet, ctx, ft, nl, rt, mt, bl, lock>>

\* admin.py 168-211: the record is looked up among the pending ones
ConfirmFound(c) ==
    /\ Running(c) /\ co[c].pc = "found"
    /\ LET a == hd[c].user
           record == IF hd[c].got.ok THEN FindPending(hd[c].got.val, hd[c].slot)
                     ELSE NoRecord
       IN IF record = NoRecord
          THEN \* 173-175, 195-197: "already handled or not found"
               /\ co' = [co EXCEPT ![c] = IdleCo]
               /\ Finish(c, "already_handled", sheet)
               /\ ctx' = ctx
          ELSE IF hd[c].h = "admin_confirm"
          THEN \* 177: await users.get
               /\ co' = [co EXCEPT ![c].pc = "io"]
               /\ hd' = [hd EXCEPT ![c].then = "confirm",
                                   ![c].got = Ok(<<record>>)]
               /\ ready' = Tail(ready)
               /\ UNCHANGED <<last, ctx>>
          ELSE \* 199-202: keep the record and ask for the reason
               /\ co' = [co EXCEPT ![c] = IdleCo]
               /\ ctx' = [ctx EXCEPT ![a] = [NoCtx EXCEPT !.step = "reject_reason",
                                                          !.record = record]]
               /\ Finish(c, "ask_reason", sheet)
    /\ UNCHANGED <<cache, pending, task, now, nextTask, calls, obs, sheet, ft, nl, rt, mt, bl, lock>>

\* admin.py 179-180 and google_sheets.py 486-499, 438-442:
\* set_booking_confirmed writes the row and invalidates; then the handler
\* awaits message.answer
ConfirmWrite(c) ==
    /\ Running(c) /\ co[c].pc = "confirm"
    /\ LET record == hd[c].got.val[1]
       IN /\ sheet' = update_booking(sheet, record, STATUS_CONFIRMED)
          /\ last' = [NoLast EXCEPT !.ev = "transition", !.h = hd[c].h,
                                    !.user = hd[c].user, !.slot = record.row,
                                    !.outcome = "update", !.sheet = sheet',
                                    !.pending = StillPending(sheet, record),
                                    !.moved = Moved(sheet, record),
                                    !.was = StatusInRow(sheet, record)]
    /\ InvalidateBookings
    /\ co' = [Touch("k", NoTask) EXCEPT ![c].pc = "io"]
    /\ hd' = [hd EXCEPT ![c].then = "answered"]
    /\ ready' = Tail(ready)
    /\ UNCHANGED <<pending, task, now, nextTask, calls, ctx, ft, nl, rt, mt, bl, lock>>

\* admin.py 181-190, 96-109: the answers are sent; finalize_rejection then
\* resets the context
Answered(c) ==
    /\ Running(c) /\ co[c].pc = "answered"
    /\ co' = [co EXCEPT ![c] = IdleCo]
    /\ ctx' = IF hd[c].h = "reject_record" THEN reset_context(hd[c].user) ELSE ctx
    /\ Finish(c, IF hd[c].h = "reject_record" THEN "rejected" ELSE "confirmed", sheet)
    /\ UNCHANGED <<cache, pending, task, now, nextTask, calls, obs, sheet, ft, nl, rt, mt, bl, lock>>

\* admin.py 217-236, 89-95 and google_sheets.py 455-456: reject_record
\* takes the record kept in the context and finalize_rejection deletes its
\* row and invalidates; then it awaits message.answer
RejectDelete(c) ==
    /\ Running(c) /\ co[c].pc = "admin_dispatch"
    /\ hd[c].h = "reject_record"
    /\ LET a == hd[c].user
           record == ctx[a].record
       IN IF ctx[a].step = "reject_reason" /\ record # NoRecord
          THEN /\ sheet' = delete_booking(sheet, record)
               /\ last' = [NoLast EXCEPT !.ev = "transition", !.h = hd[c].h,
                                         !.user = a, !.slot = record.row,
                                         !.outcome = "delete", !.sheet = sheet',
                                         !.pending = StillPending(sheet, record),
                                         !.moved = Moved(sheet, record),
                                         !.was = StatusInRow(sheet, record)]
               /\ InvalidateBookings
               /\ co' = [Touch("k", NoTask) EXCEPT ![c].pc = "io"]
               /\ hd' = [hd EXCEPT ![c].then = "answered"]
               /\ ready' = Tail(ready)
          ELSE /\ co' = [co EXCEPT ![c] = IdleCo]
               /\ Finish(c, "unrouted", sheet)
               /\ UNCHANGED <<cache, obs, sheet>>
    /\ UNCHANGED <<pending, task, now, nextTask, calls, ctx, ft, nl, rt, mt, bl, lock>>

\* pending requests of the users, as handle_options has written them
PendingSheet(n) ==
    [i \in 1..n |-> [date |-> strftime(selected_date), time |-> i,
                     status |-> STATUS_PENDING, user |-> i]]

\* admin.py 495-505: the row of a slot an admin has blocked
BlockedRow == [date |-> strftime(selected_date), time |-> NSlots,
               status |-> STATUS_BLOCKED, user |-> NoneUser]

\* pending_list (admin.py 124-145) has shown the requests to both admins;
\* below them the sheet may hold a slot an admin has blocked
AInit ==
    /\ cache = [k \in Keys |-> NoEntry]
    /\ pending = [k \in Keys |-> NoTask]
    /\ task = [t \in TaskIds |-> IdleTask]
    /\ co = [c \in Coros |-> IdleCo]
    /\ ready = <<>>
    /\ now = 0
    /\ nextTask = 0
    /\ calls = 0
    /\ obs = [k \in Keys |-> NoObs]
    /\ last = NoLast
    /\ sheet \in {PendingSheet(n) \o held : n \in 1..NUsers, held \in {<<>>, <<BlockedRow>>}}
    /\ ctx = [u \in Senders |-> IF u \in Admins
                                THEN [NoCtx EXCEPT !.step = "confirm_records"]
                                ELSE NoCtx]
    /\ hd = [c \in Coros |-> NoFrame]
    /\ ft = NoFreeTimes
    /\ nl = NoLoop
    /\ rt = NoRetry
    /\ mt = NoWatch
    /\ bl = NoBlacklist
    /\ lock = Unlocked

ListedRows == 2..(NUsers + 1)

ANext ==
    \/ \E c \in Coros, a \in Admins, row \in ListedRows :
          AdminRequest(c, a, "admin_confirm", row)
    \/ \E c \in Coros, a \in Admins, row \in ListedRows :
          AdminRequest(c, a, "admin_reject", row)
    \/ \E c \in Coros, a \in Admins, row \in ListedRows :
          AdminRequest(c, a, "reject_record", row)
    \/ \E c \in Coros : ConfirmDispatch(c)
    \/ \E c \in Coros : GetHit(c)
    \/ \E c \in Coros : GetJoin(c)
    \/ \E c \in Coros : GetCreate(c)
    \/ \E c \in Coros : AfterWait(c)
    \/ \E c \in Coros : OwnDone(c)
    \/ \E t \in TaskIds : TaskStart(t)
    \/ \E t \in TaskIds : LoaderRun(t, TRUE, fetch_records(sheet))
    \/ \E t \in TaskIds : TaskFinish(t)
    \/ \E c \in Coros : ConfirmFound(c)
    \/ \E c \in Coros : IoReply(c)
    \/ \E c \in Coros : ConfirmWrite(c)
    \/ \E c \in Coros : RejectDelete(c)
    \/ \E c \in Coros : Answered(c)

ASpec == AInit /\ [][ANext]_vars

\* ------------------------------------------------ free_times_for_date
\* config.py 39
SLOT_INTERVAL_MIN == 30
\* the day of the model has NSlots slots; slot s begins s - 1 intervals
\* after midnight
SlotMinutes(s) == (s - 1) * SLOT_INTERVAL_MIN
\* role.py 58-62
all_time_slots == [s \in Slots |-> s]

\* role.py 98: slot_hour < start_hour; role.py 102: slot_hour >= end_hour
BeforeOpening(slot_hour, start_hour) == slot_hour < start_hour
AfterClosing_late(slot_hour, end_hour) == slot_hour > end_hour
AfterClosing(slot_hour, end_hour) == slot_hour >= end_hour

\* role.py 112: slot_minutes <= current_minutes
AlreadyPassed_strictly(slot_minutes, current_minutes) == slot_minutes < current_minutes
AlreadyPassed(slot_minutes, current_minutes) == slot_minutes <= current_minutes

\* role.py 64-117.  passed = the caller gave active_bookings; all = the list
\* of bookings the cache holds; today, minutes = now.date() and the minutes
\* of the day at now
free_times_for_date(date, passed, active_bookings, all, start_hour, end_hour, today, minutes) ==
    LET bookings == IF passed
                    THEN SelectSeq(active_bookings, LAMBDA r : r.date = date)
                    ELSE get_bookings(all, date, NoneUser, ACTIVE_STATUSES)
        existing == {bookings[i].time : i \in 1..Len(bookings)}
        Offered(s) == /\ ~BeforeOpening(SlotMinutes(s) \div 60, start_hour)
                      /\ ~AfterClosing(SlotMinutes(s) \div 60, end_hour)
                      /\ s \notin existing
                      /\ ~(date = today /\ AlreadyPassed(SlotMinutes(s), minutes))
    IN SelectSeq(all_time_slots, Offered)

\* the inputs: sheets of at most MaxRows rows, a schedule, a clock
MaxRows == 1
Days == 1..2
Statuses == ACTIVE_STATUSES \cup {STATUS_REJECTED}
Rows == [date : {strftime(DateObj(d)) : d \in Days}, time : Slots,
         status : Statuses, user : {1}]
FSheets == UNION {[1..n -> Rows] : n \in 0..MaxRows}
Hours == 0..((NSlots * SLOT_INTERVAL_MIN) \div 60)

FInit ==
    /\ cache = [k \in Keys |-> NoEntry]
    /\ pending = [k \in Keys |-> NoTask]
    /\ task = [t \in TaskIds |-> IdleTask]
    /\ co = [c \in Coros |-> IdleCo]
    /\ ready = <<>>
    /\ now = 0
    /\ nextTask = 0
    /\ calls = 0
    /\ obs = [k \in Keys |-> NoObs]
    /\ last = NoLast
    /\ sheet \in FSheets
    /\ ctx = [u \in Senders |-> NoCtx]
    /\ hd = [c \in Coros |-> NoFrame]
    /\ nl = NoLoop
    /\ rt = NoRetry
    /\ mt = NoWatch
    /\ bl = NoBlacklist
    /\ lock = Unlocked
    /\ \E sh \in Hours, eh \in Hours, d \in Days, m \in {0, SLOT_INTERVAL_MIN} :
          ft = [NoFreeTimes EXCEPT !.start_hour = sh, !.end_hour = eh,
                                   !.today = d, !.minutes = m]

\* role.py 125-130, 142, 159 with the list of user.py 178, 209, 284: the
\* caller passes get_bookings(statuses=ACTIVE_STATUSES)
CallWithBookings ==
    /\ ft.path = "none"
    /\ LET all == fetch_records(sheet)
       IN ft' = [ft EXCEPT !.path = "passed",
                    !.result = free_times_for_date(selected_date, TRUE,
                                   get_bookings(all, NoneDate, NoneUser, ACTIVE_STATUSES),
                                   all, ft.start_hour, ft.end_hour,
                                   DateObj(ft.today), ft.minutes)]
    /\ UNCHANGED <<cache, pending, task, co, ready, now, nextTask, calls, obs, last,
                   sheet, ctx, hd, nl, rt, mt, bl, lock>>

\* role.py 159 as called from user.py 249, admin.py 423: no list is passed
CallWithoutBookings ==
    /\ ft.path = "none"
    /\ LET all == fetch_records(sheet)
       IN ft' = [ft EXCEPT !.path = "fetched",
                    !.result = free_times_for_date(selected_date, FALSE, <<>>,
                                   all, ft.start_hour, ft.end_hour,
                                   DateObj(ft.today), ft.minutes)]
    /\ UNCHANGED <<cache, pending, task, co, ready, now, nextTask, calls, obs, last,
                   sheet, ctx, hd, nl, rt, mt, bl, lock>>

FNext ==
    \/ CallWithBookings
    \/ CallWithoutBookings

FSpec == FInit /\ [][FNext]_vars

\* ---------------------------------------------------- notification_loop
\* config.py 40, 42, 43
WASH_DURATION_MIN == 60
NOTIFY_BEFORE_MIN == 10
NOTIFY_AFTER_MIN == 60

\* the iterations of the loop that are followed
MaxTicks == 3

\* the clock of the loop counts minutes; day 1 begins at minute 0
DayMinutes == 24 * 60
Today(t) == 1 + (t \div DayMinutes)
StartMinute(r) == (r.date.day - 1) * DayMinutes + SlotMinutes(r.time)

\* notifications.py 49-57, 118-124: strptime(..., "%Y-%m-%d %H:%M") succeeds
strptime_iso(r) == r.date.kind = "yyyy-mm-dd"
\* cache.py 342-347: the sort key strptime(..., DATETIME_FORMAT) succeeds
strptime_sheet(r) == r.date.kind = "dd.mm.yy"
sort_raises(records) == \E i \in 1..Len(records) : ~strptime_sheet(records[i])

Max(a, b) == IF a >= b THEN a ELSE b

\* notifications.py 67-70, in seconds
InBeforeWindow(r, t) ==
    LET diff_before == (StartMinute(r) - t) * 60
        notify_before_target == NOTIFY_BEFORE_MIN * 60
        notify_before_window_start == Max(0, notify_before_target - 60)
    IN notify_before_window_start <= diff_before /\ diff_before <= notify_before_target

\* notifications.py 9, 85, 127: "datetime" is the class (line 9 rebinds the
\* name of line 6), which has no attribute "timedelta": AttributeError,
\* outside every try
timedelta_raises == TRUE

\* the end of service of a booking: its start, the duration and the delay
EndOfService(r) == StartMinute(r) + WASH_DURATION_MIN + NOTIFY_AFTER_MIN

\* notifications.py 88-89: 0 <= diff_after < 60, in seconds
InAfterWindow(r, t) ==
    LET diff_after == (t - EndOfService(r)) * 60
    IN 0 <= diff_after /\ diff_after < 60

\* notifications.py 49-57 and 85-87, 118-124 and 127-129: what the loop makes
\* of a booking before it compares the clock with the end of service: "skip"
\* (strptime raises ValueError: continue), "raise" (datetime.timedelta raises
\* AttributeError, which ends the loop) or "end" (the end time is computed)
EndTime_computed(r) == "end"
EndTime(r) ==
    IF ~strptime_iso(r) THEN "skip"
    ELSE IF timedelta_raises THEN "raise"
    ELSE "end"

\* notifications.py 48-106 over the bookings of today, from booking i on:
\* the rows notified, the row numbers passed to complete_booking (104), and
\* whether the loop survives
RECURSIVE FirstLoop(_, _, _)
FirstLoop(bookings, i, t) ==
    IF i > Len(bookings) THEN [sent |-> <<>>, done |-> <<>>, alive |-> TRUE]
    ELSE IF EndTime(bookings[i]) = "skip" THEN FirstLoop(bookings, i + 1, t)
    ELSE LET note == IF InBeforeWindow(bookings[i], t) THEN <<bookings[i].row>>
                     ELSE <<>>
         IN IF EndTime(bookings[i]) = "raise"
            THEN [sent |-> note, done |-> <<>>, alive |-> FALSE]
            ELSE LET rest == FirstLoop(bookings, i + 1, t)
                     completed == IF InAfterWindow(bookings[i], t)
                                  THEN <<bookings[i].row>> ELSE <<>>
                 IN [sent |-> note \o rest.sent, done |-> completed \o rest.done,
                     alive |-> rest.alive]

\* notifications.py 110-143 over all confirmed bookings not handled above,
\* from booking i on: the row numbers passed to complete_booking (132), and
\* whether the loop survives
RECURSIVE SecondLoop(_, _, _, _)
SecondLoop(all_confirmed, i, processed_today_ids, t) ==
    IF i > Len(all_confirmed) THEN [done |-> <<>>, alive |-> TRUE]
    ELSE IF all_confirmed[i].row \in processed_today_ids
            \/ EndTime(all_confirmed[i]) = "skip"
         THEN SecondLoop(all_confirmed, i + 1, processed_today_ids, t)
    ELSE IF EndTime(all_confirmed[i]) = "raise" THEN [done |-> <<>>, alive |-> FALSE]
    ELSE LET rest == SecondLoop(all_confirmed, i + 1, processed_today_ids, t)
             completed == IF t > EndOfService(all_confirmed[i])
                          THEN <<all_confirmed[i].row>> ELSE <<>>
         IN [done |-> completed \o rest.done, alive |-> rest.alive]

\* google_sheets.py 527-535, 446-459: complete_booking on each of the records
\* in turn; each deletes the row whose number its record carries, a number
\* read before the loop began
RECURSIVE CompleteEach(_, _)
CompleteEach(sh, rows) ==
    IF rows = <<>> THEN sh
    ELSE CompleteEach(delete_booking(sh, [row |-> Head(rows)]), Tail(rows))

\* cache.py 212-221: clear_expired() at clock t
clear_expired(ch, t) ==
    [k \in DOMAIN ch |-> IF ch[k].has /\ is_expired(ch[k], t) THEN Deleted(ch[k]) ELSE ch[k]]

\* google_sheets.py 235-264: check_sheet_changes() when nobody has edited the
\* spreadsheet since the last call: the first call stores the time reported
check_sheet_changes(m) ==
    [m EXCEPT !.polls = @ + 1, !.last = IF @ = 0 THEN m.drive ELSE @]

\* notifications.py 38-155: one iteration, then sleep(60).  As written
\* (nl.awaited false) get_bookings(...) at 43 is a coroutine object and the
\* for statement at 48 raises TypeError outside every try.  An iteration
\* that gets as far as 146 goes on to clear_expired() and
\* check_sheet_changes() (147, 151), evaluated like the calls before them.
NotifyTick ==
    /\ nl.alive
    /\ nl.ticks < MaxTicks
    /\ LET all == fetch_records(sheet)
           today_bookings == get_bookings(all, DateObj(Today(now)), NoneUser,
                                          {STATUS_CONFIRMED})
           first == FirstLoop(today_bookings, 1, now)
           confirmed == SelectSeq(all, LAMBDA r : r.status = STATUS_CONFIRMED)
           processed_today_ids == {today_bookings[i].row : i \in 1..Len(today_bookings)}
           sweeps == nl.awaited /\ first.alive /\ ~sort_raises(confirmed)
           second == SecondLoop(get_bookings(all, NoneDate, NoneUser,
                                             {STATUS_CONFIRMED}),
                                1, processed_today_ids, now)
           survives == sweeps /\ second.alive
           completed == IF ~nl.awaited THEN <<>>
                        ELSE first.done \o (IF sweeps THEN second.done ELSE <<>>)
           invalidated == IF completed = <<>> THEN cache
                          ELSE [k \in DOMAIN cache |-> Deleted(cache[k])]
       IN /\ nl' = [nl EXCEPT !.ticks = @ + 1, !.at = now,
                              !.sent = IF nl.awaited THEN @ \o first.sent ELSE @,
                              !.latest = IF nl.awaited THEN first.sent ELSE <<>>,
                              !.alive = survives]
          /\ sheet' = CompleteEach(sheet, completed)
          /\ cache' = IF survives THEN clear_expired(invalidated, now) ELSE invalidated
          /\ mt' = IF survives THEN check_sheet_changes(mt) ELSE mt
    /\ now' = now + 1
    /\ UNCHANGED <<pending, task, co, ready, nextTask, calls, obs, last,
                   ctx, hd, ft, rt, bl, lock>>

\* the inputs: sheets of confirmed bookings whose dates are in the format the
\* handlers write (user.py 454) or in the one add_booking makes of a date
\* object (google_sheets.py 411); clocks around the windows of slots 1 and 2;
\* the cache holds nothing, or the list of bookings loaded at clock 0, which
\* has expired
NRows == [date : {strftime(DateObj(d)) : d \in Days} \cup {StrOf(DateObj(d)) : d \in Days},
          time : Slots, status : {STATUS_CONFIRMED}, user : {1}]
NSheets == UNION {[1..n -> NRows] : n \in 0..MaxRows}
StartClocks ==
    {(d - 1) * DayMinutes + m :
        d \in Days,
        m \in {SlotMinutes(2) - NOTIFY_BEFORE_MIN - 1,
               WASH_DURATION_MIN + NOTIFY_AFTER_MIN - 1,
               WASH_DURATION_MIN + NOTIFY_AFTER_MIN + 5,
               WASH_DURATION_MIN + NOTIFY_AFTER_MIN + 65}}

NInit ==
    /\ pending = [k \in Keys |-> NoTask]
    /\ task = [t \in TaskIds |-> IdleTask]
    /\ co = [c \in Coros |-> IdleCo]
    /\ ready = <<>>
    /\ now \in StartClocks
    /\ nextTask = 0
    /\ calls = 0
    /\ obs = [k \in Keys |-> NoObs]
    /\ last = NoLast
    /\ sheet \in NSheets
    /\ cache \in {[k \in Keys |-> NoEntry], [k \in Keys |-> Entry(fetch_records(sheet), 0)]}
    /\ ctx = [u \in Senders |-> NoCtx]
    /\ hd = [c \in Coros |-> NoFrame]
    /\ ft = NoFreeTimes
    /\ \E aw \in BOOLEAN : nl = [NoLoop EXCEPT !.awaited = aw]
    /\ rt = NoRetry
    /\ mt = NoWatch
    /\ bl = NoBlacklist
    /\ lock = Unlocked

NNext == NotifyTick

NSpec == NInit /\ [][NNext]_vars

\* --------------------------------------------------------- with_retries
\* google_sheets.py 179: every caller leaves retries at its default
retries == 5
\* calls of wrapped() that are followed
MaxWraps == 3
\* what a loader returns
LoaderResults == {1, 2}

\* google_sheets.py 187: attempt == retries - 1
LastAttempt_late(attempt) == attempt = retries
LastAttempt(attempt) == attempt = retries - 1

\* google_sheets.py 189: delay *= 2
Doubled_not(delay) == delay
Doubled(delay) == delay * 2

\* google_sheets.py 180-183: wrapped() is called; range(retries) is not empty,
\* so line 190 is never reached
RetryCall ==
    /\ rt.st # "loop"
    /\ rt.call < MaxWraps
    /\ rt' = [NoRetry EXCEPT !.call = rt.call + 1, !.st = "loop"]
    /\ UNCHANGED <<cache, pending, task, co, ready, now, nextTask, calls, obs,
                   last, sheet, ctx, hd, ft, nl, mt, bl, lock>>

\* google_sheets.py 184-185 (and 190, were the loop to run out): loader()
\* returns and wrapped() returns its value
RetrySuccess ==
    /\ rt.st = "loop"
    /\ \E v \in LoaderResults :
           rt' = [rt EXCEPT !.invoked = @ + 1, !.st = "returned", !.res = Ok(v)]
    /\ UNCHANGED <<cache, pending, task, co, ready, now, nextTask, calls, obs,
                   last, sheet, ctx, hd, ft, nl, mt, bl, lock>>

\* google_sheets.py 184-189: loader() raises; on the last attempt the
\* exception is raised again, else the thread sleeps and the delay doubles
RetryFailure ==
    /\ rt.st = "loop"
    /\ IF LastAttempt(rt.attempt) \/ rt.attempt >= retries
       THEN /\ rt' = [rt EXCEPT !.invoked = @ + 1, !.failed = @ + 1,
                                !.st = "raised", !.res = Exc]
            /\ now' = now
       ELSE /\ rt' = [rt EXCEPT !.invoked = @ + 1, !.failed = @ + 1,
                                !.attempt = @ + 1, !.delay = Doubled(@),
                                !.waits = Append(@, rt.delay)]
            /\ now' = now + rt.delay
    /\ UNCHANGED <<cache, pending, task, co, ready, nextTask, calls, obs,
                   last, sheet, ctx, hd, ft, nl, mt, bl, lock>>

RInit == Init

RNext == RetryCall \/ RetrySuccess \/ RetryFailure

RSpec == RInit /\ [][RNext]_vars

\* ------------------------------------------- the store's write functions
\* google_sheets.py 403-405, 431-433, 447-449: _init_google_sheets() is false
\* and the function returns; 425, 439, 455: the worksheet call raises, which
\* leaves add_booking and update_booking as an exception and is caught in
\* delete_booking (458-459)
Failure(initialised, raises) ==
    IF ~initialised THEN "not_initialised" ELSE IF raises THEN "raised" ELSE "done"

\* google_sheets.py 427, 442, 456: invalidate_bookings_cache() follows the
\* worksheet call and is reached when that call has returned
Reached_always(raises) == TRUE
Reached(raises) == ~raises

\* one call of a write function: written = the rows after its worksheet call
StoreCall(h, initialised, raises, written) ==
    /\ calls < MaxCalls
    /\ calls' = calls + 1
    /\ sheet' = IF initialised /\ ~raises THEN written ELSE sheet
    /\ IF initialised /\ Reached(raises) THEN InvalidateBookings
       ELSE UNCHANGED <<cache, obs>>
    /\ last' = [NoLast EXCEPT !.ev = "store", !.h = h,
                              !.outcome = Failure(initialised, raises),
                              !.count = calls + 1]
    /\ UNCHANGED <<pending, task, co, ready, now, nextTask, ctx, hd, ft, nl, rt, mt, bl, lock>>

\* google_sheets.py 377-427
AddBooking(initialised, raises, time_slot, user_id) ==
    /\ time_slot \in Slots
    /\ StoreCall("add_booking", initialised, raises,
                 add_booking(sheet, selected_date, time_slot, user_id, STATUS_PENDING))

\* google_sheets.py 430-443, for a record read from the store
UpdateBooking(initialised, raises, i, status) ==
    /\ i \in 1..Len(fetch_records(sheet))
    /\ StoreCall("update_booking", initialised, raises,
                 update_booking(sheet, fetch_records(sheet)[i], status))

\* google_sheets.py 446-459, for a record read from the store
DeleteBooking(initialised, raises, i) ==
    /\ i \in 1..Len(fetch_records(sheet))
    /\ StoreCall("delete_booking", initialised, raises,
                 delete_booking(sheet, fetch_records(sheet)[i]))

\* cache.py 305-349: a read that finds no entry loads the rows and stores them
ReadBookings ==
    /\ ~cache["k"].has
    /\ cache' = [cache EXCEPT !["k"] = Entry(fetch_records(sheet), now)]
    /\ last' = [NoLast EXCEPT !.ev = "read", !.count = calls]
    /\ UNCHANGED <<pending, task, co, ready, now, nextTask, calls, obs, sheet,
                   ctx, hd, ft, nl, rt, mt, bl, lock>>

\* the sheet holds nothing or one request; the cache holds its rows or nothing
WInit ==
    /\ sheet \in {<<>>, PendingSheet(1)}
    /\ cache \in {[k \in Keys |-> NoEntry], [k \in Keys |-> Entry(fetch_records(sheet), 0)]}
    /\ pending = [k \in Keys |-> NoTask]
    /\ task = [t \in TaskIds |-> IdleTask]
    /\ co = [c \in Coros |-> IdleCo]
    /\ ready = <<>>
    /\ now = 0
    /\ nextTask = 0
    /\ calls = 0
    /\ obs = [k \in Keys |-> NoObs]
    /\ last = NoLast
    /\ ctx = [u \in Senders |-> NoCtx]
    /\ hd = [c \in Coros |-> NoFrame]
    /\ ft = NoFreeTimes
    /\ nl = NoLoop
    /\ rt = NoRetry
    /\ mt = NoWatch
    /\ bl = NoBlacklist
    /\ lock = Unlocked

WNext ==
    \/ \E initialised, raises \in BOOLEAN, s \in {1, NSlots} :
           AddBooking(initialised, raises, s, 1)
    \/ \E initialised, raises \in BOOLEAN, i \in 1..(MaxCalls + 1) :
           \E status \in {STATUS_CONFIRMED, STATUS_REJECTED} :
               UpdateBooking(initialised, raises, i, status)
    \/ \E initialised, raises \in BOOLEAN, i \in 1..(MaxCalls + 1) :
           DeleteBooking(initialised, raises, i)
    \/ ReadBookings

WSpec == WInit /\ [][WNext]_vars

\* -------------------------------------------------- check_sheet_changes
\* edits of the spreadsheet and calls of check_sheet_changes that are followed
MaxEdits == 2
MaxPolls == 3
\* cache.py 275-276: the keys of the blacklist and of the schedule
OtherKinds == {"blacklist", "schedule"}

\* somebody edits the spreadsheet: Drive reports a later modifiedTime
SheetModified ==
    /\ mt.drive <= MaxEdits
    /\ mt' = [mt EXCEPT !.drive = @ + 1,
                        !.before = {t \in TaskIds : task[t].st = "posted"}]
    /\ UNCHANGED <<cache, pending, task, co, ready, now, nextTask, calls, obs,
                   last, sheet, ctx, hd, ft, nl, rt, bl, lock>>

\* google_sheets.py 257: current_time > _last_modified_time
Later_or_equal(current_time, last_modified_time) == current_time >= last_modified_time
Later(current_time, last_modified_time) == current_time > last_modified_time

\* google_sheets.py 252: "_last_modified_time is None" is false
Observed_always(last_modified_time) == TRUE
Observed(last_modified_time) == last_modified_time # 0

\* google_sheets.py 235-264: one call; polled = _get_sheet_modified_time()
\* returned a time (199-228), else it returned None
CheckSheetChanges(polled) ==
    /\ mt.polls < MaxPolls
    /\ LET current_time == IF polled THEN mt.drive ELSE 0
           clears == current_time # 0 /\ Observed(mt.last) /\ Later(current_time, mt.last)
       IN /\ mt' = [mt EXCEPT !.polls = @ + 1,
                              !.last = IF current_time = 0 THEN @
                                       ELSE IF ~Observed(mt.last) \/ clears THEN current_time
                                       ELSE @,
                              !.kept = IF clears THEN {} ELSE @,
                              !.cleared = @ \/ clears]
          /\ IF clears THEN InvalidateBookings ELSE UNCHANGED <<cache, obs>>
          /\ last' = [NoLast EXCEPT !.ev = "check",
                                    !.outcome = IF clears THEN "cleared" ELSE "kept",
                                    !.count = current_time]
    /\ UNCHANGED <<pending, task, co, ready, now, nextTask, calls, sheet, ctx,
                   hd, ft, nl, rt, bl, lock>>

\* cache.py 359-398: a read of the blacklist or of the schedule; one that
\* finds no entry loads the list and stores it
ReadOther(kind) ==
    /\ kind \notin mt.kept
    /\ mt' = [mt EXCEPT !.kept = @ \cup {kind}]
    /\ last' = [NoLast EXCEPT !.ev = "read", !.h = kind]
    /\ UNCHANGED <<cache, pending, task, co, ready, now, nextTask, calls, obs,
                   sheet, ctx, hd, ft, nl, rt, bl, lock>>

MInit == Init

\* reads of the bookings through Cache.get, edits, checks
MNext ==
    \/ \E c \in Coros, k \in Keys : Arrive(c, "get", k, TRUE)
    \/ \E c \in Coros : GetHit(c)
    \/ \E c \in Coros : GetJoin(c)
    \/ \E c \in Coros : GetCreate(c)
    \/ \E c \in Coros : AfterWait(c)
    \/ \E c \in Coros : OwnDone(c)
    \/ \E t \in TaskIds : TaskStart(t)
    \/ \E t \in TaskIds : LoaderRun(t, TRUE, LoaderValue(t))
    \/ \E t \in TaskIds : TaskFinish(t)
    \/ SheetModified
    \/ \E polled \in BOOLEAN : CheckSheetChanges(polled)
    \/ \E kind \in OtherKinds : ReadOther(kind)

MSpec == MInit /\ [][MNext]_vars

\* ------------------------------------ booking_window_dates, available_dates
\* role.py 122: range(14)
WindowDays == 14
\* days are counted from a Monday: date.weekday() of day 1 is 0
DaysOfWeek == 7
weekday_monday(d) == 0
weekday(d) == (d - 1) % DaysOfWeek

\* role.py 123: date >= today
NotBefore_any(date, today) == TRUE
NotBefore(date, today) == date >= today

\* role.py 119-123
booking_window_dates(today) ==
    LET start_of_week == today - weekday(today)
        dates == [i \in 1..WindowDays |-> start_of_week + (i - 1)]
    IN SelectSeq(dates, LAMBDA date : NotBefore(date, today))

\* role.py 125-130; the schedule gives start_hour and end_hour on every
\* weekday but the one that is closed, which has no hour
available_dates(today, active_bookings, all, start_hour, end_hour, closed, minutes) ==
    SelectSeq(booking_window_dates(today),
              LAMBDA date :
                  free_times_for_date(DateObj(date), TRUE, active_bookings, all,
                      start_hour,
                      IF weekday(date) = closed THEN start_hour ELSE end_hour,
                      DateObj(today), minutes) # <<>>)

\* the inputs: today on each weekday, a schedule, a clock, a sheet
DInit ==
    /\ cache = [k \in Keys |-> NoEntry]
    /\ pending = [k \in Keys |-> NoTask]
    /\ task = [t \in TaskIds |-> IdleTask]
    /\ co = [c \in Coros |-> IdleCo]
    /\ ready = <<>>
    /\ now = 0
    /\ nextTask = 0
    /\ calls = 0
    /\ obs = [k \in Keys |-> NoObs]
    /\ last = NoLast
    /\ sheet \in InitialSheets
    /\ ctx = [u \in Senders |-> NoCtx]
    /\ hd = [c \in Coros |-> NoFrame]
    /\ nl = NoLoop
    /\ rt = NoRetry
    /\ mt = NoWatch
    /\ bl = NoBlacklist
    /\ lock = Unlocked
    /\ \E sh \in Hours, eh \in Hours, d \in 1..DaysOfWeek, cl \in 0..(DaysOfWeek - 1),
          m \in {0, SLOT_INTERVAL_MIN} :
          ft = [NoFreeTimes EXCEPT !.start_hour = sh, !.end_hour = eh, !.today = d,
                                   !.closed = cl, !.minutes = m]

\* user.py 242: the dates of the window
CallBookingWindowDates ==
    /\ ft.path = "none"
    /\ ft' = [ft EXCEPT !.path = "booking_window_dates",
                        !.result = booking_window_dates(ft.today)]
    /\ UNCHANGED <<cache, pending, task, co, ready, now, nextTask, calls, obs, last,
                   sheet, ctx, hd, nl, rt, mt, bl, lock>>

\* user.py 178-181: available_dates(get_bookings(statuses=ACTIVE_STATUSES))
CallAvailableDates ==
    /\ ft.path = "none"
    /\ LET all == fetch_records(sheet)
       IN ft' = [ft EXCEPT !.path = "available_dates",
                    !.result = available_dates(ft.today,
                                   get_bookings(all, NoneDate, NoneUser, ACTIVE_STATUSES),
                                   all, ft.start_hour, ft.end_hour, ft.closed, ft.minutes)]
    /\ UNCHANGED <<cache, pending, task, co, ready, now, nextTask, calls, obs, last,
                   sheet, ctx, hd, nl, rt, mt, bl, lock>>

DNext == CallBookingWindowDates \/ CallAvailableDates

DSpec == DInit /\ [][DNext]_vars

\* ------------------------------------------- the schedule of the weekdays
\* google_sheets.py 579, 616: "return None", no record of the schedule names
\* the weekday
NoneHour == 0 - 1

\* google_sheets.py 543-579, 581-616: the hour of the record of weekday idx;
\* missing = the weekdays the schedule has no record of
time_of_begining(idx, missing, start_hour) == IF idx \in missing THEN NoneHour ELSE start_hour
time_of_end(idx, missing, end_hour) == IF idx \in missing THEN NoneHour ELSE end_hour

\* role.py 98, 102: "slot_hour < start_hour" with start_hour None raises
\* TypeError at the first slot; "slot_hour >= end_hour" with end_hour None
\* raises at the first slot that is not before the opening
Comparable(hour) == hour # NoneHour
TypeErrorRaised(start_hour, end_hour) ==
    \/ ~Comparable(start_hour) /\ Len(all_time_slots) > 0
    \/ /\ Comparable(start_hour) /\ ~Comparable(end_hour)
       /\ \E s \in Slots : ~BeforeOpening(SlotMinutes(s) \div 60, start_hour)

\* role.py 64-117 on a date, with the hours the schedule gives for its weekday:
\* the slots returned, or the exception
scheduled_free_times(date, all, missing, start_hour, end_hour, today, minutes) ==
    LET sh == time_of_begining(weekday(date), missing, start_hour)
        eh == time_of_end(weekday(date), missing, end_hour)
    IN IF TypeErrorRaised(sh, eh) THEN Exc
       ELSE Ok(free_times_for_date(DateObj(date), FALSE, <<>>, all, sh, eh,
                                   DateObj(today), minutes))

\* role.py 125-130 with the hours the schedule gives: an exception of
\* free_times_for_date on a date of the window leaves available_dates
scheduled_available_dates(all, missing, start_hour, end_hour, today, minutes) ==
    LET window == booking_window_dates(today)
        free(date) == scheduled_free_times(date, all, missing, start_hour, end_hour,
                                           today, minutes)
    IN IF \E i \in 1..Len(window) : ~free(window[i]).ok THEN Exc
       ELSE Ok(SelectSeq(window, LAMBDA date : free(date).val # <<>>))

\* the inputs: today on each weekday, a schedule that lacks at most one
\* weekday, a clock, a sheet
SInit ==
    /\ cache = [k \in Keys |-> NoEntry]
    /\ pending = [k \in Keys |-> NoTask]
    /\ task = [t \in TaskIds |-> IdleTask]
    /\ co = [c \in Coros |-> IdleCo]
    /\ ready = <<>>
    /\ now = 0
    /\ nextTask = 0
    /\ calls = 0
    /\ obs = [k \in Keys |-> NoObs]
    /\ last = NoLast
    /\ sheet \in InitialSheets
    /\ ctx = [u \in Senders |-> NoCtx]
    /\ hd = [c \in Coros |-> NoFrame]
    /\ nl = NoLoop
    /\ rt = NoRetry
    /\ mt = NoWatch
    /\ bl = NoBlacklist
    /\ lock = Unlocked
    /\ \E sh \in Hours, eh \in Hours, d \in 1..DaysOfWeek, m \in {0, SLOT_INTERVAL_MIN},
          ms \in {{}} \cup {{w} : w \in 0..(DaysOfWeek - 1)} :
          ft = [NoFreeTimes EXCEPT !.start_hour = sh, !.end_hour = eh, !.today = d,
                                   !.missing = ms, !.minutes = m]

\* role.py 159 (time_keyboard) for the i-th date of the window
CallOnDate(i) ==
    /\ ft.path = "none"
    /\ i <= Len(booking_window_dates(ft.today))
    /\ LET date == booking_window_dates(ft.today)[i]
           r == scheduled_free_times(date, fetch_records(sheet), ft.missing,
                                     ft.start_hour, ft.end_hour, ft.today, ft.minutes)
       IN ft' = [ft EXCEPT !.path = "free_times_for_date", !.date = date,
                           !.raised = ~r.ok, !.result = r.val]
    /\ UNCHANGED <<cache, pending, task, co, ready, now, nextTask, calls, obs, last,
                   sheet, ctx, hd, nl, rt, mt, bl, lock>>

\* user.py 181 (available_dates)
CallOnWindow ==
    /\ ft.path = "none"
    /\ LET r == scheduled_available_dates(fetch_records(sheet), ft.missing,
                                          ft.start_hour, ft.end_hour, ft.today,
                                          ft.minutes)
       IN ft' = [ft EXCEPT !.path = "available_dates", !.raised = ~r.ok,
                           !.result = r.val]
    /\ UNCHANGED <<cache, pending, task, co, ready, now, nextTask, calls, obs, last,
                   sheet, ctx, hd, nl, rt, mt, bl, lock>>

SNext ==
    \/ \E i \in 1..WindowDays : CallOnDate(i)
    \/ CallOnWindow

SSpec == SInit /\ [][SNext]_vars

\* ------------------------------------------------------- the blacklist
\* google_sheets.py 107-168: _init_google_sheets() is true once it has
\* succeeded; before that a call of it succeeds (connects) or fails
Initialised(connects) == bl.initialized \/ connects

\* google_sheets.py 685-701: [] when the store is not initialised, else the
\* list the cache holds, else the list the loader reads from the sheet
get_blacklist(initialised) ==
    IF ~initialised THEN {}
    ELSE IF bl.cached.has THEN bl.cached.data
    ELSE bl.listed

\* cache.py 359-370: the list read is the one the cache holds afterwards
CachedAfterRead(initialised) ==
    IF initialised /\ ~bl.cached.has THEN [has |-> TRUE, data |-> bl.listed]
    ELSE bl.cached

\* admin.py 647, google_sheets.py 704-728: the admin puts requester u on the
\* blacklist
AddBlacklist(u, connects) ==
    /\ u \in Users
    /\ u \notin bl.listed
    /\ LET initialised == Initialised(connects)
           appends == initialised /\ u \notin get_blacklist(initialised)
       IN /\ bl' = [bl EXCEPT !.initialized = initialised,
                              !.listed = IF appends THEN @ \cup {u} ELSE @,
                              !.cached = IF appends THEN [has |-> FALSE, data |-> {}]
                                         ELSE CachedAfterRead(initialised)]
          /\ last' = [NoLast EXCEPT !.ev = "add_blacklist", !.user = u,
                                    !.outcome = IF initialised THEN "True" ELSE "False"]
    /\ UNCHANGED <<cache, pending, task, co, ready, now, nextTask, calls, obs,
                   sheet, ctx, hd, ft, nl, rt, mt, lock>>

\* user.py 165-198: requester u sends "записаться".  connects = the store
\* can be initialised when get_blacklist is called (169), later = when the
\* schedule is read for available_dates (181), which fails on the hour None
\* otherwise (role.py 98); free = available_dates has returned a date
start_booking(u, connects, later, free) ==
    /\ u \in Users
    /\ ctx[u].step = "none"
    /\ calls < MaxCalls
    /\ calls' = calls + 1
    /\ LET initialised == Initialised(connects)
           blacklist == get_blacklist(initialised)
           afterwards == initialised \/ later
           outcome == IF u \in blacklist THEN "refused"
                      ELSE IF ~afterwards THEN "raised"
                      ELSE IF ~free THEN "no_slots" ELSE "choose_date"
       IN /\ bl' = [bl EXCEPT !.initialized = IF outcome = "refused" THEN initialised
                                               ELSE afterwards,
                              !.cached = CachedAfterRead(initialised),
                              !.asked = IF u \in bl.listed THEN @ \cup {u} ELSE @]
          /\ ctx' = IF outcome = "choose_date"
                    THEN [ctx EXCEPT ![u] = [NoCtx EXCEPT !.step = "choose_date"]]
                    ELSE ctx
          /\ last' = [NoLast EXCEPT !.ev = "start_booking", !.user = u,
                                    !.listed = u \in bl.listed, !.outcome = outcome]
    /\ UNCHANGED <<cache, pending, task, co, ready, now, nextTask, obs, sheet, hd,
                   ft, nl, rt, mt, lock>>

\* user.py 204-487: the dialog of requester u runs to its end (handle_date,
\* handle_time, handle_options) and add_booking appends the request
FinishDialog(u, time_slot) ==
    /\ u \in Users
    /\ ctx[u].step = "choose_date"
    /\ bl.initialized
    /\ sheet' = add_booking(sheet, selected_date, time_slot, u, STATUS_PENDING)
    /\ ctx' = reset_context(u)
    /\ last' = [NoLast EXCEPT !.ev = "handled", !.h = "handle_options", !.user = u,
                              !.slot = time_slot, !.outcome = "booked"]
    /\ UNCHANGED <<cache, pending, task, co, ready, now, nextTask, calls, obs, hd,
                   ft, nl, rt, mt, bl, lock>>

\* the blacklist sheet names nobody or one requester; nothing is cached
KInit ==
    /\ cache = [k \in Keys |-> NoEntry]
    /\ pending = [k \in Keys |-> NoTask]
    /\ task = [t \in TaskIds |-> IdleTask]
    /\ co = [c \in Coros |-> IdleCo]
    /\ ready = <<>>
    /\ now = 0
    /\ nextTask = 0
    /\ calls = 0
    /\ obs = [k \in Keys |-> NoObs]
    /\ last = NoLast
    /\ sheet = <<>>
    /\ ctx = [u \in Senders |-> NoCtx]
    /\ hd = [c \in Coros |-> NoFrame]
    /\ ft = NoFreeTimes
    /\ nl = NoLoop
    /\ rt = NoRetry
    /\ mt = NoWatch
    /\ \E named \in {{}} \cup {{u} : u \in Users} : bl = [NoBlacklist EXCEPT !.listed = named]
    /\ lock = Unlocked

KNext ==
    \/ \E u \in Users, connects \in BOOLEAN : AddBlacklist(u, connects)
    \/ \E u \in Users, connects, later, free \in BOOLEAN :
           start_booking(u, connects, later, free)
    \/ \E u \in Users, s \in Slots : FinishDialog(u, s)

KSpec == KInit /\ [][KNext]_vars

\* ------------------------------------------ the cache lock and two keys
\* the keys: a load for "a" is in flight while "b" and the whole cache are
\* operated on
LockKeys == {"a", "b"}
LockOps == {"invalidate_pattern", "clear_expired", "get_stats"}

\* a call of invalidate_pattern, clear_expired or get_stats: its coroutine is
\* put at the tail of the ready queue
ArriveOther(c, op) ==
    /\ FirstFree(c)
    /\ calls < MaxCalls
    /\ calls' = calls + 1
    /\ co' = [co EXCEPT ![c] = [IdleCo EXCEPT !.pc = op, !.op = op]]
    /\ ready' = Append(ready, c)
    /\ UNCHANGED <<cache, pending, task, now, nextTask, obs, last, sheet, ctx, hd,
                   ft, nl, rt, mt, bl, lock>>

\* the entries of the keys in ks are deleted by coroutine c, which ends
DeleteKeys(c, ks) ==
    /\ cache' = [k \in DOMAIN cache |-> IF k \in ks THEN Deleted(cache[k]) ELSE cache[k]]
    /\ co' = [d \in Coros |->
                IF d = c THEN IdleCo
                ELSE IF co[d].key \in ks /\ co[d].pc \in {"after_wait", "own_wait"}
                     THEN [co[d] EXCEPT !.dirty = TRUE]
                     ELSE co[d]]
    /\ obs' = [k \in DOMAIN obs |->
                IF k \in ks
                THEN [obs[k] EXCEPT !.inval = TRUE,
                                    !.removed = IF cache[k].has
                                                THEN @ \cup {cache[k].data} ELSE @]
                ELSE obs[k]]

\* the patterns: the keys are of one character, so a key starts with the
\* empty pattern and with itself; "c" is the beginning of no key
Patterns == {"", "a", "b", "c"}
\* cache.py 206: key.startswith(pattern)
startswith_whole(key, pattern) == pattern = key
startswith(key, pattern) == pattern = "" \/ pattern = key

\* cache.py 198-210: invalidate_pattern(pattern)
InvalidatePattern(c, pattern) ==
    /\ Running(c) /\ co[c].pc = "invalidate_pattern"
    /\ lock = Unlocked
    /\ LET keys_to_remove == {key \in DOMAIN cache :
                                 cache[key].has /\ startswith(key, pattern)}
       IN DeleteKeys(c, keys_to_remove)
    /\ last' = [NoLast EXCEPT !.ev = "invalidate_pattern", !.h = pattern]
    /\ ready' = Tail(ready)
    /\ lock' = Released(c)
    /\ UNCHANGED <<pending, task, now, nextTask, calls, sheet, ctx, hd, ft, nl,
                   rt, mt, bl>>

\* cache.py 212-221: clear_expired()
ClearExpired(c) ==
    /\ Running(c) /\ co[c].pc = "clear_expired"
    /\ lock = Unlocked
    /\ LET expired_keys == {key \in DOMAIN cache :
                               cache[key].has /\ is_expired(cache[key], now)}
       IN /\ DeleteKeys(c, expired_keys)
          /\ last' = [NoLast EXCEPT !.ev = "clear_expired", !.keys = expired_keys]
    /\ ready' = Tail(ready)
    /\ lock' = Released(c)
    /\ UNCHANGED <<pending, task, now, nextTask, calls, sheet, ctx, hd, ft, nl,
                   rt, mt, bl>>

\* cache.py 222-239: get_stats() returns total_entries, expired_entries,
\* valid_entries and pending_loads
GetStats(c) ==
    /\ Running(c) /\ co[c].pc = "get_stats"
    /\ lock = Unlocked
    /\ LET total == Cardinality({k \in DOMAIN cache : cache[k].has})
           expired == Cardinality({k \in DOMAIN cache :
                                      cache[k].has /\ is_expired(cache[k], now)})
           pending_loads == Cardinality({k \in DOMAIN pending : InFlight(k)})
       IN last' = [NoLast EXCEPT !.ev = "stats",
                                 !.res = Ok(<<total, expired, total - expired,
                                              pending_loads>>)]
    /\ co' = [co EXCEPT ![c] = IdleCo]
    /\ ready' = Tail(ready)
    /\ lock' = Released(c)
    /\ UNCHANGED <<cache, pending, task, now, nextTask, calls, obs, sheet, ctx, hd,
                   ft, nl, rt, mt, bl>>

LInit ==
    /\ cache = [k \in LockKeys |-> NoEntry]
    /\ pending = [k \in LockKeys |-> NoTask]
    /\ task = [t \in TaskIds |-> IdleTask]
    /\ co = [c \in Coros |-> IdleCo]
    /\ ready = <<>>
    /\ now = 0
    /\ nextTask = 0
    /\ calls = 0
    /\ obs = [k \in LockKeys |-> NoObs]
    /\ last = NoLast
    /\ sheet = <<>>
    /\ ctx = [u \in Senders |-> NoCtx]
    /\ hd = [c \in Coros |-> NoFrame]
    /\ ft = NoFreeTimes
    /\ nl = NoLoop
    /\ rt = NoRetry
    /\ mt = NoWatch
    /\ bl = NoBlacklist
    /\ lock = Unlocked

\* the first call is a get of "a" that has to load; the calls that arrive while
\* it is in progress are gets of "b" and the operations on the whole cache.
\* Every get has a loader and the loaders return: a get without one returns
\* at cache.py 90-91 and a loader that raises ends in 165-173, and neither
\* takes the lock
LNext ==
    \/ \E c \in Coros : calls = 0 /\ Arrive(c, "get", "a", TRUE)
    \/ \E c \in Coros : ~Quiet("a") /\ Arrive(c, "get", "b", TRUE)
    \/ \E c \in Coros, k \in LockKeys : ~Quiet("a") /\ Arrive(c, "invalidate", k, TRUE)
    \/ \E c \in Coros, op \in LockOps : ~Quiet("a") /\ ArriveOther(c, op)
    \/ \E c \in Coros : GetHit(c)
    \/ \E c \in Coros : GetJoin(c)
    \/ \E c \in Coros : GetCreate(c)
    \/ \E c \in Coros : AfterWait(c)
    \/ \E c \in Coros : OwnDone(c)
    \/ \E c \in Coros : Invalidate(c)
    \/ \E c \in Coros, pattern \in Patterns : InvalidatePattern(c, pattern)
    \/ \E c \in Coros : ClearExpired(c)
    \/ \E c \in Coros : GetStats(c)
    \/ \E t \in TaskIds : TaskStart(t)
    \/ \E t \in TaskIds : LoaderRun(t, TRUE, LoaderValue(t))
    \/ \E t \in TaskIds : TaskFinish(t)
    \/ Tick

LSpec == LInit /\ [][LNext]_vars

\* --------------------------------------------------- set_booking_rejected
\* The rows of this section carry the cells the rejection writes as well:
\* by = "Подтвердил", at = "Подтверждено в", reason = "Причина отказа".
\* A value of "at" is a text or a datetime object.
NoStamp == [kind |-> "text", t |-> 0]
\* datetime.now(moscow_tz), google_sheets.py 509-511
DatetimeObj(t) == [kind |-> "datetime", t |-> t]
Reasons == {"", "no detergent"}

\* a request as handle_options has written it (user.py 451-461)
RequestRows(n) ==
    [i \in 1..n |-> [date |-> strftime(selected_date), time |-> i,
                     status |-> STATUS_PENDING, user |-> i, by |-> "",
                     at |-> NoStamp, reason |-> ""]]

\* google_sheets.py 280-285: the record of row i + 1
RecordOf(sh, i) ==
    [k \in DOMAIN sh[i] \cup {"row"} |-> IF k = "row" THEN i + 1 ELSE sh[i][k]]

\* google_sheets.py 437, 296-297: {**record, **updates}, as cells
MergedCells(record, updates) ==
    [k \in DOMAIN record \ {"row"} |-> IF k \in DOMAIN updates THEN updates[k] ELSE record[k]]

\* list_sheet.update (google_sheets.py 438) sends the cells as JSON: a
\* datetime object among them cannot be serialised and the call raises
\* TypeError, outside every try of update_booking
Serialisable_any(cells) == TRUE
Serialisable(cells) == cells.at.kind # "datetime"

\* google_sheets.py 513-521: the updates of the keep_record branch
RejectionUpdates(admin_name, reason, t) ==
    [status |-> STATUS_REJECTED, by |-> admin_name, at |-> DatetimeObj(t),
     reason |-> reason]

\* google_sheets.py 502-524: set_booking_rejected(record, admin_name, reason,
\* keep_record=...) for the record read from row i + 1
SetBookingRejected(i, admin_name, reason, keep_record, initialised) ==
    /\ calls < MaxCalls
    /\ i \in 1..Len(sheet)
    /\ sheet[i].status = STATUS_PENDING
    /\ calls' = calls + 1
    /\ LET record == RecordOf(sheet, i)
           cells == MergedCells(record, RejectionUpdates(admin_name, reason, now))
           outcome == IF ~initialised THEN "not_initialised"
                      ELSE IF keep_record /\ ~Serialisable(cells) THEN "raised"
                      ELSE "done"
       IN /\ sheet' = IF outcome # "done" THEN sheet
                      ELSE IF keep_record THEN [sheet EXCEPT ![i] = cells]
                      ELSE delete_booking(sheet, record)
          /\ IF outcome = "done" THEN InvalidateBookings ELSE UNCHANGED <<cache, obs>>
          /\ last' = [NoLast EXCEPT !.ev = "set_booking_rejected",
                                    !.h = IF keep_record THEN "keep_record" ELSE "delete",
                                    !.user = admin_name, !.slot = record.row,
                                    !.val = <<reason>>, !.outcome = outcome,
                                    !.sheet = sheet]
    /\ UNCHANGED <<pending, task, co, ready, now, nextTask, ctx, hd, ft, nl, rt, mt, bl, lock>>

JInit ==
    /\ sheet \in {RequestRows(n) : n \in 1..NUsers}
    /\ cache = [k \in Keys |-> NoEntry]
    /\ pending = [k \in Keys |-> NoTask]
    /\ task = [t \in TaskIds |-> IdleTask]
    /\ co = [c \in Coros |-> IdleCo]
    /\ ready = <<>>
    /\ now \in 0..1
    /\ nextTask = 0
    /\ calls = 0
    /\ obs = [k \in Keys |-> NoObs]
    /\ last = NoLast
    /\ ctx = [u \in Senders |-> NoCtx]
    /\ hd = [c \in Coros |-> NoFrame]
    /\ ft = NoFreeTimes
    /\ nl = NoLoop
    /\ rt = NoRetry
    /\ mt = NoWatch
    /\ bl = NoBlacklist
    /\ lock = Unlocked

JNext ==
    \E i \in 1..(NUsers + 1), a \in Admins, reason \in Reasons :
        \E keep_record, initialised \in BOOLEAN :
            SetBookingRejected(i, a, reason, keep_record, initialised)

JSpec == JInit /\ [][JNext]_vars

\* =================================================== claims on the cache
\* the one task a returned call was served by (the one it made, else the one
\* it waited for)
ServedBy(l) == IF l.made # NoTask THEN l.made ELSE l.waited
ExpiredAtStart(l) == l.startEntry.has /\ l.startNow - l.startEntry.created_at > TTL
FreshAtStart(l) == l.startEntry.has /\ l.startNow - l.startEntry.created_at <= TTL

\* C1: among overlapping get(key, loader) calls on a key without a live
\* entry, when no loader fails (and nobody invalidates the key meanwhile),
\* the loader is invoked exactly once and every call returns the value that
\* one invocation produced.
C1_SingleFlight ==
    \A k \in Keys :
        (obs[k].bloads >= 1 /\ ~obs[k].fail /\ ~obs[k].inval)
            => /\ obs[k].bloads = 1
               /\ \A r \in obs[k].rets : obs[k].bval # NoData /\ r = Ok(obs[k].bval)

\* two or more overlapping calls have all returned the one loaded value, the
\* last of them a caller that waited for the load another caller started
C1_Witness ==
    /\ last.ev = "ret" /\ last.waited # NoTask /\ last.made = NoTask
    /\ LET o == obs[last.key]
       IN o.n >= 2 /\ o.done = o.n /\ o.bloads = 1 /\ ~o.fail /\ ~o.inval
          /\ o.rets = {Ok(o.bval)} /\ o.bval # NoData

\* C2: for every key at most one loader execution is in flight.
C2_AtMostOneLoaderInFlight ==
    \A k \in Keys :
        Cardinality({t \in TaskIds : task[t].key = k /\ task[t].st = "executing"}) <= 1

\* the case of C2: a load failed, its waiters resumed, two loaders run
C2_Witness ==
    \E t \in TaskIds, u \in TaskIds :
        /\ t # u /\ task[t].st = "executing" /\ task[u].st = "executing"
        /\ \E f \in TaskIds : task[f].st = "done" /\ task[f].exc

C4_FallbackToPreviousEntry ==
    /\ (last.ev = "fin" /\ ~last.lok /\ last.prev.has)
          => /\ last.fb /\ ~last.exc
             /\ last.val = last.prev.data
             /\ last.after = last.prev
    /\ (last.ev = "ret" /\ last.made # NoTask /\ task[last.made].fb)
          => last.res = Ok(task[last.made].prev.data)
    /\ (last.ev = "ret" /\ last.waited # NoTask /\ task[last.waited].fb
            /\ cache[last.key] = task[last.waited].prev)
          => last.res = Ok(task[last.waited].prev.data) /\ last.made = NoTask

\* a load on an expired entry failed; the starter and a waiter have both
\* returned the expired entry's value, the waiter last
C4_Witness ==
    /\ last.ev = "ret" /\ last.waited # NoTask /\ last.made = NoTask
    /\ task[last.waited].fb
    /\ now - task[last.waited].prev.created_at > TTL
    /\ cache[last.key] = task[last.waited].prev
    /\ last.res = Ok(task[last.waited].prev.data)
    /\ LET o == obs[last.key]
       IN o.n >= 2 /\ o.done = o.n /\ o.rets = {last.res}

\* C5: a get(key, loader) that starts while the key's entry is not expired
\* returns the entry's value, creates no load task (so its loader is not
\* invoked and nothing is registered as in flight) and waits for none.
C5_LiveEntryServedFromCache ==
    /\ (last.ev = "ret" /\ last.loader /\ FreshAtStart(last))
          => /\ last.res = Ok(last.startEntry.data)
             /\ last.made = NoTask /\ last.waited = NoTask
    /\ \A c \in Coros :
          co[c].pc \in {"after_wait", "own_wait"}
              => ~(co[c].startEntry.has
                   /\ co[c].startNow - co[c].startEntry.created_at <= TTL)

\* an entry loaded at 0 is returned, one tick later, to a get with a loader,
\* and no load has run since the one that made the entry
C5_Witness ==
    /\ last.ev = "ret" /\ last.loader
    /\ last.startEntry.has /\ last.startEntry.created_at = 0 /\ last.startNow = 1
    /\ last.res = Ok(last.startEntry.data)
    /\ last.made = NoTask /\ last.waited = NoTask
    /\ obs[last.key].loads = 1 /\ ~InFlight(last.key)

\* C6 as stated: when no other writer touches the key during the call, no get returns a value that
\* sits in an entry older than TTL, and a get(key, loader) that starts on an
\* entry older than TTL is served by exactly one load and returns what that
\* load's loader produced.
C6_NeverOlderThanTTL ==
    (last.ev = "ret" /\ ~last.dirty)
        => /\ ~last.stale
           /\ (last.loader /\ ExpiredAtStart(last))
                 => /\ (last.made = NoTask) # (last.waited = NoTask)
                    /\ task[ServedBy(last)].ok
                    /\ last.res = Ok(LoaderValue(ServedBy(last)))

\* C6, amended: when no other writer (an invalidation, another load storing its
\* result) touches the key during the call, a get(key, loader) that
\* starts on an entry older than TTL is served by exactly one load (its own
\* or the one in flight); if that load's loader succeeds the get returns what
\* it produced, from an entry no older than TTL, and if it fails the get
\* returns the expired entry's value.  A get returns a value from an entry
\* older than TTL only after such a failure or when it was given no loader.
C6_FreshUnlessLoadFails ==
    (last.ev = "ret" /\ ~last.dirty)
        => /\ (last.loader /\ ExpiredAtStart(last))
                 => /\ (last.made = NoTask) # (last.waited = NoTask)
                    /\ IF task[ServedBy(last)].ok
                       THEN last.res = Ok(LoaderValue(ServedBy(last))) /\ ~last.stale
                       ELSE last.res = Ok(last.startEntry.data)
           /\ last.stale
                 => \/ ~last.loader
                    \/ ServedBy(last) # NoTask /\ task[ServedBy(last)].fb

\* an entry made at 0 has expired; the next get(key, loader) started one
\* load and returned what its loader produced
C6_Witness ==
    /\ last.ev = "ret" /\ last.loader /\ ~last.dirty
    /\ last.startEntry.has /\ last.startEntry.created_at = 0 /\ last.startNow = TTL + 1
    /\ last.made # NoTask /\ last.waited = NoTask
    /\ task[last.made].ok /\ last.res = Ok(LoaderValue(last.made))
    /\ obs[last.key].bloads = 1 /\ ~last.stale

\* C11: if invalidate(key) has returned before a get(key, loader) starts, the
\* get observes the invalidation: it does not return the data of an entry
\* the invalidation removed, and what it returns is what an execution of the
\* loader returned.
C11_InvalidationObserved ==
    (last.ev = "ret" /\ last.loader /\ last.gone # {} /\ last.res.ok)
        => /\ last.res.val \notin last.gone
           /\ \E t \in TaskIds : /\ task[t].st = "done" /\ task[t].ok
                                 /\ last.res.val = LoaderValue(t)

\* a get that started after an invalidation had removed an entry has returned
\* the value of the load it started
C11_Witness ==
    /\ last.ev = "ret" /\ last.loader /\ last.res.ok
    /\ last.gone # {}
    /\ last.made # NoTask

\* ========================================== claims on the booking store
\* rows i and j of the sheet are active bookings of one (date, time slot)
SameSlot(sh, i, j) ==
    /\ sh[i].status \in ACTIVE_STATUSES /\ sh[j].status \in ACTIVE_STATUSES
    /\ sh[i].date = sh[j].date /\ sh[i].time = sh[j].time

C10_ReadAfterWriteIsCurrent ==
    (last.ev = "ret" /\ last.loader /\ last.res.ok /\ ~last.dirty /\ Len(last.sheet) > 0)
        => last.res.val = fetch_records(last.sheet)

\* add_booking has completed while a load of the booking list was in flight
C10_Witness ==
    /\ last.ev = "added"
    /\ \E t \in TaskIds : task[t].st \in {"executing", "posted"}

\* slot s is held on the date by a booking with an active status
Held(sh, date, s) ==
    \E i \in 1..Len(sh) : /\ sh[i].date = strftime(date) /\ sh[i].time = s
                          /\ sh[i].status \in ACTIVE_STATUSES
InResult(s) == \E i \in 1..Len(ft.result) : ft.result[i] = s

C8_FetchedPathExcludesOccupied ==
    ft.path = "fetched" => \A s \in Slots : InResult(s) => ~Held(sheet, selected_date, s)

\* C12: when two admins confirm or reject the same Pending booking
\* concurrently, the one whose action comes second finds the record no longer
\* Pending and performs no write or delete: every write or delete of a
\* transition lands on a row that holds the booking, still Pending.
C12_SecondAdminWritesNothing ==
    last.ev = "transition" => last.pending

\* an admin's confirmation has been written onto a row that another admin's
\* confirmation had already made Confirmed
C12_Witness ==
    /\ last.ev = "transition" /\ last.h = "admin_confirm" /\ ~last.pending
    /\ last.slot - 1 \in 1..Len(last.sheet)
    /\ last.sheet[last.slot - 1].status = STATUS_CONFIRMED
    /\ \E c \in Coros : hd[c].h = "admin_confirm" /\ hd[c].user # last.user
                        /\ hd[c].slot = last.slot /\ co[c].pc \in {"io", "answered"}
                        /\ hd[c].then = "answered"


\* ======================================= claims on the notification loop
\* the confirmed bookings of the day of the latest iteration, as the sheet
\* holds them
ConfirmedRows == SelectSeq(fetch_records(sheet), LAMBDA r : r.status = STATUS_CONFIRMED)
TimesSent(row) == Cardinality({j \in 1..Len(nl.sent) : nl.sent[j] = row})

\* C13: a confirmed booking of today that an iteration found in the window
\* before its start has been sent the "starting soon" notification, and
\* exactly once
C13_NotifiedExactlyOnce ==
    nl.ticks > 0 =>
        \A i \in 1..Len(ConfirmedRows) :
            (/\ ConfirmedRows[i].date.day = Today(nl.at)
             /\ InBeforeWindow(ConfirmedRows[i], nl.at))
                => TimesSent(ConfirmedRows[i].row) = 1

\* the calls evaluated, a booking of today with the date the handlers write
\* in the window at two iterations, and nothing was sent
C13_Witness ==
    /\ nl.awaited /\ nl.alive /\ nl.ticks >= 2
    /\ \E i \in 1..Len(ConfirmedRows) :
            /\ ConfirmedRows[i].date = strftime(DateObj(Today(nl.at)))
            /\ InBeforeWindow(ConfirmedRows[i], nl.at)
            /\ InBeforeWindow(ConfirmedRows[i], nl.at - 1)
            /\ TimesSent(ConfirmedRows[i].row) = 0

\* C14: after an iteration no confirmed booking is left whose end of service
\* was past at that iteration
C14_PastBookingsDeleted ==
    nl.ticks > 0 =>
        \A i \in 1..Len(ConfirmedRows) : ~(EndOfService(ConfirmedRows[i]) < nl.at)

\* the calls evaluated, the loop running, and a booking of an earlier day with
\* the date the handlers write is still in the sheet after three iterations
C14_Witness ==
    /\ nl.awaited /\ nl.alive /\ nl.ticks = MaxTicks
    /\ \E i \in 1..Len(ConfirmedRows) :
            /\ ConfirmedRows[i].date.kind = "dd.mm.yy"
            /\ ConfirmedRows[i].date.day < Today(nl.at)
            /\ EndOfService(ConfirmedRows[i]) < nl.at - MaxTicks

\* C15: the loop never terminates
C15_LoopNeverTerminates == nl.alive

\* the loop has ended in its first iteration, with the calls evaluated
C15_Witness == nl.awaited /\ ~nl.alive /\ nl.ticks = 1 /\ Len(ConfirmedRows) > 0


\* ============================================== claims on with_retries
\* C16: wrapped() invokes the loader at most 5 times; when it has returned,
\* the invocation that succeeded was its last and every one before it failed;
\* when it has raised, 5 invocations were made and all of them failed
C16_AtMostFiveAttempts ==
    /\ rt.invoked <= 5
    /\ rt.st = "returned" => (rt.res.ok /\ rt.invoked = rt.failed + 1)
    /\ rt.st = "raised" => (~rt.res.ok /\ rt.invoked = 5 /\ rt.failed = 5)

\* a call that returned the result of its fifth invocation, after a call that
\* raised
C16_Witness == rt.call = 2 /\ rt.st = "returned" /\ rt.failed = 4 /\ now = 2 * 15


\* ============================== claims on the store's write functions
\* C17: a call of add_booking, update_booking or delete_booking that fails
\* (the store is not initialised, or the worksheet call raises) leaves the
\* rows of the sheet and the content of the cache as they were
C17_FailureLeavesState ==
    [][(last'.ev = "store" /\ last'.outcome # "done")
           => (sheet' = sheet /\ cache' = cache)]_vars

\* delete_booking has failed on a raising worksheet call while the cache held
\* the rows of a sheet with two bookings
C17_Witness ==
    /\ last.ev = "store" /\ last.outcome = "raised" /\ last.h = "delete_booking"
    /\ cache["k"].has /\ Len(cache["k"].data) = 2 /\ Len(sheet) = 2


\* ========================================== claims on check_sheet_changes
\* C18: a call of check_sheet_changes that polls a time later than the last
\* observed one leaves no cached bookings, blacklist or schedule and has set
\* the last observed time to the polled one; and a read of the bookings that
\* the cache answers after such a call is not answered with rows that a load
\* had read before the sheet was modified
C18_ChangeClearsEveryList ==
    /\ (last.ev = "check" /\ last.outcome = "cleared")
           => (~cache["k"].has /\ mt.kept = {} /\ mt.last = last.count)
    /\ (/\ last.ev = "ret" /\ mt.cleared /\ mt.last = mt.drive
        /\ last.made = NoTask /\ last.waited = NoTask /\ last.startEntry.has)
           => last.startEntry.data \notin {LoaderValue(t) : t \in mt.before}

\* the check has cleared while a load that had read the sheet before the edit
\* was in flight, and a later read was answered from the cache with the rows
\* of that load
C18_Witness ==
    /\ last.ev = "ret" /\ mt.cleared /\ mt.last = mt.drive
    /\ last.made = NoTask /\ last.waited = NoTask /\ last.startEntry.has
    /\ last.startEntry.data \in {LoaderValue(t) : t \in mt.before}
    /\ mt.kept = {}


C30_WindowIsFourteenDays ==
    ft.path = "booking_window_dates"
        => ft.result = [i \in 1..14 |-> ft.today + (i - 1)]

\* C30: the window booking_window_dates has returned is the consecutive dates
\* from today to the Sunday of the week after today's, 14 less the number of
\* days since Monday
C30_WindowEndsWithNextWeek ==
    ft.path = "booking_window_dates"
        => ft.result = [i \in 1..(14 - ((ft.today - 1) % 7)) |-> ft.today + (i - 1)]

\* today is a Sunday and the window has 8 dates
C30_Witness ==
    /\ ft.path = "booking_window_dates" /\ (ft.today - 1) % 7 = 6
    /\ Len(ft.result) = 8 /\ ft.result[8] = ft.today + 7


\* ======================================= claims on a day without schedule
\* C21: on a date whose weekday the schedule has no record of,
\* free_times_for_date has returned, without raising, no slot; and
\* available_dates has returned, without raising, dates none of which has
\* such a weekday
C21_NoScheduleNoSlots ==
    /\ (ft.path = "free_times_for_date" /\ weekday(ft.date) \in ft.missing)
           => (~ft.raised /\ ft.result = <<>>)
    /\ (ft.path = "available_dates" /\ ft.missing # {})
           => (/\ ~ft.raised
               /\ \A i \in 1..Len(ft.result) : weekday(ft.result[i]) \notin ft.missing)

\* free_times_for_date has raised on a date whose weekday has no record
C21_Witness ==
    /\ ft.path = "free_times_for_date" /\ weekday(ft.date) \in ft.missing
    /\ ft.raised /\ ft.date > ft.today


C23_CompletedBookingDeleted ==
    nl.ticks > 0 =>
        \A i \in 1..Len(ConfirmedRows) :
            ~(/\ ConfirmedRows[i].date.day = Today(nl.at)
              /\ InAfterWindow(ConfirmedRows[i], nl.at))

\* the calls evaluated, the loop running, and a booking of today with the date
\* the handlers write is in the store after the iteration at its end of service
C23_Witness ==
    /\ nl.awaited /\ nl.alive /\ nl.ticks >= 1
    /\ \E i \in 1..Len(ConfirmedRows) :
            /\ ConfirmedRows[i].date = strftime(DateObj(Today(nl.at)))
            /\ nl.at = EndOfService(ConfirmedRows[i])


\* ------------------------------------------------ claims on the cache lock
\* the load of "a" whose loader is executing
LoadingA(t) == task[t].st = "executing" /\ task[t].key = "a"

\* C24: while the loader of a load for "a" executes nobody holds the lock, and
\* no call on another key is suspended on that load
C24_LockFreeWhileLoading ==
    \A t \in TaskIds :
        LoadingA(t) =>
            /\ lock = Unlocked
            /\ \A c \in Coros :
                   (co[c].pc \in {"after_wait", "own_wait"} /\ co[c].key # "a")
                       => (co[c].waited # t /\ co[c].made # t)

\* the loader of "a" is still executing when a get of "b" that missed has
\* returned what a load of its own, begun later, had loaded
C24_Witness ==
    \E t \in TaskIds :
        /\ LoadingA(t)
        /\ last.ev = "ret" /\ last.key = "b" /\ last.res.ok
        /\ last.made > t
        /\ cache["b"].has


\* ============================================== claims on the row handle
\* C25: a write issued with a record read earlier finds the booking it was
\* read from in the row the record names, for as long as that booking is in
\* the store
C25_HandleDenotesItsBooking ==
    last.ev = "transition" => ~last.moved

\* an admin confirms with the record read from row 3 after the row above was
\* deleted: the booking, now in row 2, is still Pending and row 3 holds a
\* second copy of it, Confirmed
C25_Witness ==
    /\ last.ev = "transition" /\ last.h = "admin_confirm" /\ last.moved
    /\ last.slot = 3
    /\ Len(sheet) = 2
    /\ sheet[1].user = sheet[2].user
    /\ sheet[1].status = STATUS_PENDING /\ sheet[2].status = STATUS_CONFIRMED


\* ======================================== claims on the changes of status
\* C26: the row a confirm action writes did not hold a Blocked or a Rejected
\* record when it was written
C26_OnlyPendingIsConfirmed ==
    (last.ev = "transition" /\ last.outcome = "update")
        => last.was \notin {STATUS_BLOCKED, STATUS_REJECTED}

\* a confirm has written the row in which the blocked slot had come to lie:
\* the sheet holds no Blocked record any more, and no action deleted one
C26_Witness ==
    /\ last.ev = "transition" /\ last.h = "admin_confirm" /\ last.was = STATUS_BLOCKED
    /\ \A i \in 1..Len(sheet) : sheet[i].status # STATUS_BLOCKED
    /\ sheet[last.slot - 1].status = STATUS_CONFIRMED


\* =========================================== claims on set_booking_rejected
\* C27: after set_booking_rejected on an initialised store, with keep_record
\* the row of the record holds status Rejected, the reason and the admin; and
\* without it the record's row is deleted and nothing else is written
C27_RejectedKeptOrDeleted ==
    (last.ev = "set_booking_rejected" /\ last.outcome # "not_initialised") =>
        IF last.h = "keep_record"
        THEN /\ last.slot - 1 \in 1..Len(sheet)
             /\ sheet[last.slot - 1].status = STATUS_REJECTED
             /\ sheet[last.slot - 1].reason = last.val[1]
             /\ sheet[last.slot - 1].by = last.user
        ELSE sheet = delete_booking(last.sheet, [row |-> last.slot])

\* keep_record was true, the call has raised and the record is still Pending,
\* without reason or admin
C27_Witness ==
    /\ last.ev = "set_booking_rejected" /\ last.h = "keep_record"
    /\ last.outcome = "raised" /\ last.val = <<"no detergent">>
    /\ sheet = last.sheet
    /\ sheet[last.slot - 1].status = STATUS_PENDING
    /\ sheet[last.slot - 1].reason = "" /\ sheet[last.slot - 1].by = ""


\* ================================= claims on the "starting soon" window
\* the rows notified in the latest iteration
NotifiedNow == {nl.latest[j] : j \in 1..Len(nl.latest)}

\* C28: in an iteration a confirmed booking of today is sent the "starting
\* soon" notification if and only if the seconds until its start lie in
\* [NOTIFY_BEFORE_MIN * 60 - 60, NOTIFY_BEFORE_MIN * 60]
C28_NotifiedIffInWindow ==
    nl.ticks > 0 =>
        \A i \in 1..Len(ConfirmedRows) :
            ConfirmedRows[i].date.day = Today(nl.at) =>
                (ConfirmedRows[i].row \in NotifiedNow
                    <=> InBeforeWindow(ConfirmedRows[i], nl.at))

\* the calls evaluated: a booking of today, with the date the handlers write,
\* starts NOTIFY_BEFORE_MIN minutes after the iteration, which sent nothing
C28_Witness ==
    /\ nl.awaited /\ nl.ticks > 0
    /\ \E i \in 1..Len(ConfirmedRows) :
            /\ ConfirmedRows[i].date = strftime(DateObj(Today(nl.at)))
            /\ StartMinute(ConfirmedRows[i]) - nl.at = NOTIFY_BEFORE_MIN
            /\ NotifiedNow = {}


\* ================================== claims on the end of an iteration
\* C29: after every iteration of the loop the cache holds no entry that was
\* expired at the iteration, and check_sheet_changes has been called once
\* per iteration
C29_EvictedAndPolled ==
    nl.ticks > 0 =>
        /\ \A k \in DOMAIN cache : ~(cache[k].has /\ is_expired(cache[k], nl.at))
        /\ mt.polls = nl.ticks

\* the loop as written has made its only iteration: the expired list of
\* bookings is still in the cache and nothing was polled
C29_Witness ==
    /\ ~nl.awaited /\ nl.ticks = 1 /\ ~nl.alive
    /\ cache["k"].has /\ is_expired(cache["k"], nl.at)
    /\ mt.polls = 0 /\ mt.last = 0


\* ============================================ claims on the slots of today
\* the hours of the schedule let slot s through
WithinHours(s) ==
    /\ ~BeforeOpening(SlotMinutes(s) \div 60, ft.start_hour)
    /\ ~AfterClosing(SlotMinutes(s) \div 60, ft.end_hour)
\* some active booking of the sheet is at slot s
BookedSomewhere(s) ==
    \E i \in 1..Len(sheet) : sheet[i].time = s /\ sheet[i].status \in ACTIVE_STATUSES

SpecWaits == <<1, 2, 4, 8>>

\* C32: the waits wrapped() has made are the first of 0.5 s, 1 s, 2 s, 4 s, one
\* after each failed attempt but the fifth: a call that has raised has waited
\* four times
C32_BackoffDoubles ==
    /\ Len(rt.waits) <= Len(SpecWaits)
    /\ rt.waits = SubSeq(SpecWaits, 1, Len(rt.waits))
    /\ rt.st \in {"loop", "returned"} => Len(rt.waits) = rt.failed
    /\ rt.st = "raised" => (rt.failed = 5 /\ Len(rt.waits) = 4)

\* a call has raised after its fifth failure and has waited 7.5 s in all
C32_Witness ==
    /\ rt.call = 1 /\ rt.st = "raised" /\ rt.waits = SpecWaits
    /\ now = 1 + 2 + 4 + 8


\* ========================================= claims on invalidate_pattern
\* the step is the one in which coroutine c runs invalidate_pattern
PatternStep(c) == co[c].pc = "invalidate_pattern" /\ co'[c].pc # "invalidate_pattern"

\* C33: a call of invalidate_pattern leaves no entry under a key that begins
\* with the pattern, and leaves every other entry and the registered loads
\* as they were
C33_PatternRemovesItsKeys ==
    [][\A c \in Coros :
          PatternStep(c) =>
              /\ \A k \in DOMAIN cache :
                    IF last'.h = "" \/ last'.h = k THEN ~cache'[k].has
                    ELSE cache'[k] = cache[k]
              /\ pending' = pending]_vars

\* invalidate_pattern("b") has removed the entry of "b" while a load of "b"
\* is registered, and the entry of "a" is in the cache
C33_Witness ==
    /\ last.ev = "invalidate_pattern" /\ last.h = "b"
    /\ ~cache["b"].has /\ obs["b"].removed # {}
    /\ cache["a"].has
    /\ InFlight("b")


\* =========================================== claims on clear_expired
\* the step is the one in which coroutine c runs clear_expired
ClearStep(c) == co[c].pc = "clear_expired" /\ co'[c].pc # "clear_expired"
\* more than TTL has passed since the entry was made
Elapsed(e) == now - e.created_at > TTL

GRows == [date : {strftime(DateObj(d)) : d \in Days}, time : 1..2,
          status : {STATUS_PENDING, STATUS_CONFIRMED}, user : 1..2]
GSheets == [1..2 -> GRows]
GDates == {NoneDate} \cup {strftime(DateObj(d)) : d \in Days}
GUsers == {NoneUser, 1}
GStatuses == {{}, {STATUS_PENDING}, ACTIVE_STATUSES}

\* cache.py 331-340: "filtered = all_bookings", and each filter that is given
\* binds filtered to a new list; with no filter it is still the list of the
\* cache entry
SameList_never(date, user_id, statuses) == FALSE
SameList(date, user_id, statuses) == date.kind = "None" /\ user_id = NoneUser /\ statuses = {}

\* cache.py 305-349: get_cached_bookings(loader, date, user_id, statuses).
\* Cache.get returns the list of the live entry, or stores the list the
\* loader returns and returns that same list (cache.py 84-87, 177-180);
\* filtered.sort (342-347) sorts the list that filtered is bound to, in place
CachedBookings(date, user_id, statuses) ==
    /\ calls < MaxCalls
    /\ LET hit == Live(cache["k"], now)
           entry == IF hit THEN cache["k"] ELSE Entry(fetch_records(sheet), now)
           all_bookings == entry.data
           filtered == get_cached_bookings(all_bookings, date, user_id, statuses)
       IN /\ cache' = [cache EXCEPT !["k"] =
                          IF SameList(date, user_id, statuses)
                          THEN [entry EXCEPT !.data = filtered]
                          ELSE entry]
          /\ last' = [NoLast EXCEPT !.ev = "bookings", !.val = filtered,
                                    !.prev = cache["k"], !.startNow = now,
                                    !.loader = ~hit]
    /\ calls' = calls + 1
    /\ UNCHANGED <<pending, task, co, ready, now, nextTask, obs, sheet, ctx, hd, ft, nl,
                   rt, mt, bl, lock>>

GInit ==
    /\ sheet \in GSheets
    /\ cache = [k \in Keys |-> NoEntry]
    /\ pending = [k \in Keys |-> NoTask]
    /\ task = [t \in TaskIds |-> IdleTask]
    /\ co = [c \in Coros |-> IdleCo]
    /\ ready = <<>>
    /\ now = 0
    /\ nextTask = 0
    /\ calls = 0
    /\ obs = [k \in Keys |-> NoObs]
    /\ last = NoLast
    /\ ctx = [u \in Senders |-> NoCtx]
    /\ hd = [c \in Coros |-> NoFrame]
    /\ ft = NoFreeTimes
    /\ nl = NoLoop
    /\ rt = NoRetry
    /\ mt = NoWatch
    /\ bl = NoBlacklist
    /\ lock = Unlocked

GNext ==
    \/ \E date \in GDates, user_id \in GUsers, statuses \in GStatuses :
           CachedBookings(date, user_id, statuses)
    \/ Tick

GSpec == GInit /\ [][GNext]_vars

\* ============================================ claims on the cached list
\* C35: a reading of the bookings that finds a live entry leaves the entry as
\* it is, members and order, whatever filters are given; a reading changes
\* the entry only when it loads
C35_ReadingKeepsCachedList ==
    [][Live(cache["k"], now) => cache'["k"] = cache["k"]]_vars

\* a reading with no filter found a live entry whose list was not in the
\* order of date and time, and the entry, still the one made at the same
\* time, now holds the list in another order
C35_Witness ==
    /\ last.ev = "bookings" /\ ~last.loader
    /\ Live(last.prev, last.startNow)
    /\ cache["k"].created_at = last.prev.created_at
    /\ cache["k"].data # last.prev.data
    /\ cache["k"].data = SortBookings(last.prev.data)


\* --------------------------------------------- the deletions of the loop
\* notification_loop over sheets of three bookings of any status, so that a
\* deletion would move the rows below it
ERows == [date : {strftime(DateObj(d)) : d \in Days} \cup {StrOf(DateObj(d)) : d \in Days},
          time : {1}, status : ACTIVE_STATUSES, user : {1}]
ESheets == [1..3 -> ERows]

EInit ==
    /\ pending = [k \in Keys |-> NoTask]
    /\ task = [t \in TaskIds |-> IdleTask]
    /\ co = [c \in Coros |-> IdleCo]
    /\ ready = <<>>
    /\ now \in StartClocks
    /\ nextTask = 0
    /\ calls = 0
    /\ obs = [k \in Keys |-> NoObs]
    /\ last = NoLast
    /\ sheet \in ESheets
    /\ cache = [k \in Keys |-> NoEntry]
    /\ ctx = [u \in Senders |-> NoCtx]
    /\ hd = [c \in Coros |-> NoFrame]
    /\ ft = NoFreeTimes
    /\ \E aw \in BOOLEAN : nl = [NoLoop EXCEPT !.awaited = aw]
    /\ rt = NoRetry
    /\ mt = NoWatch
    /\ bl = NoBlacklist
    /\ lock = Unlocked

ENext == NotifyTick

ESpec == EInit /\ [][ENext]_vars

\* ===================================== claims on the deletions of the loop
\* the loop may delete the booking at clock t: it is confirmed and its end of
\* service has been reached
Finished(r, t) == r.status = STATUS_CONFIRMED /\ t >= EndOfService(r)
\* the rows of the sheet that the loop may not delete at clock t, in order
Protected(sh, t) == SelectSeq(sh, LAMBDA r : ~Finished(r, t))

C37_NoLoadRegisteredWhenQuiet ==
    \A k \in DOMAIN pending : Quiet(k) => ~InFlight(k)

\* the latest get made a load that fell back to the expired entry; the call
\* has returned, no get is in progress and no load is registered
C37_Witness ==
    /\ last.ev = "ret" /\ last.made # NoTask
    /\ task[last.made].fb
    /\ Quiet("k") /\ ~InFlight("k")


\* ------------------------------------- polls and reads, one call at a time
\* check_sheet_changes, edits of the spreadsheet and reads of the cached
\* lists with no two calls overlapping.  Variables used: cache, now, calls,
\* mt, last.

\* cache.py 84-87, 122-130, 177-180: Cache.get(CACHE_KEY_BOOKINGS, loader)
\* with no other call in progress: the data of the live entry, else the
\* loader's result, stored at the clock; the loader reads the sheet as its
\* latest modification (mt.drive) left it
ReadCached ==
    /\ calls < MaxCalls
    /\ LET hit == Live(cache["k"], now)
           data == IF hit THEN cache["k"].data ELSE <<mt.drive>>
       IN /\ cache' = IF hit THEN cache ELSE [cache EXCEPT !["k"] = Entry(data, now)]
          /\ last' = [NoLast EXCEPT !.ev = "ret", !.res = Ok(data),
                                    !.startEntry = cache["k"], !.startNow = now]
    /\ calls' = calls + 1
    /\ UNCHANGED <<pending, task, co, ready, now, nextTask, obs, sheet, ctx, hd, ft, nl,
                   rt, mt, bl, lock>>

PInit == Init

PNext ==
    \/ ReadCached
    \/ SheetModified
    \/ \E polled \in BOOLEAN : CheckSheetChanges(polled)
    \/ \E kind \in OtherKinds : ReadOther(kind)
    \/ Tick

PSpec == PInit /\ [][PNext]_vars

\* ============================== claims on polls that find nothing new
\* the step is a call of check_sheet_changes
PollStep == mt'.polls # mt.polls

\* C38: a call of check_sheet_changes whose probe returns None, or a time not
\* later than the last observed one, leaves the cached lists and the last
\* observed time as they were; and no step makes the last observed time
\* earlier
C38_QuietPollChangesNothing ==
    [][/\ mt'.last >= mt.last
       /\ (/\ PollStep
           /\ (last'.count = 0 \/ (mt.last # 0 /\ last'.count <= mt.last)))
              => (cache' = cache /\ mt'.kept = mt.kept /\ mt'.last = mt.last)]_vars

\* the latest call polled the time already observed, after an earlier call
\* had cleared the cache, and the lists read since are in the cache
C38_Witness ==
    /\ last.ev = "check" /\ last.count # 0 /\ last.count = mt.last
    /\ mt.cleared /\ mt.last = mt.drive
    /\ cache["k"].has /\ mt.kept = OtherKinds

\* =============================================== claims on the first poll
\* C39: the first call of check_sheet_changes whose probe returns a time
\* records that time and invalidates nothing; and a read that finds a live
\* entry is answered with the entry's data, whatever modification came after
\* the entry was loaded
C39_FirstPollOnlyRecords ==
    [][/\ (mt.last = 0 /\ mt'.last # 0)
              => (cache' = cache /\ mt'.kept = mt.kept /\ mt'.last = mt.drive)
       /\ (calls' # calls /\ Live(cache["k"], now))
              => (cache' = cache /\ last'.res = Ok(cache["k"].data))]_vars

\* the bookings were loaded, the spreadsheet was modified, the first poll
\* recorded the time of that modification, and the latest read was answered
\* with the rows loaded before the modification
C39_Witness ==
    /\ last.ev = "ret" /\ last.res = Ok(<<1>>)
    /\ mt.drive = 2 /\ mt.last = 2 /\ ~mt.cleared
    /\ cache["k"].has /\ cache["k"].data = <<1>>

====
